---- MODULE Spec2Model ----
(***************************************************************************)
(* Model of the iDDS request core (main/lib/idds/core/requests.py): the    *)
(* leasing engine (get_requests_by_status_type, clean_locking) and the     *)
(* hierarchical commit (update_request_with_transforms); and of the        *)
(* contents store (main/lib/idds/orm/contents.py).                         *)
(*                                                                         *)
(* The orm layer (idds.orm.requests / transforms / collections) and the    *)
(* transactional_session decorator are not part of the sources at hand;    *)
(* the orm_* operators and transactional_session below follow the          *)
(* behaviour the specification document gives for them.                    *)
(***************************************************************************)
EXTENDS Integers, Sequences, FiniteSets, TLC

VARIABLES
    requests,       \* the requests table: request_id -> row
    transforms,     \* the transforms table: the row with id i at position i
    collections,    \* the collections table: the row with id i at position i
    contents,       \* the contents table: the row with id i at position i
    sequence,       \* the next request_id the backend generates
    late,           \* history: the Requests a live worker has held a claim on
                    \* for the sweep's time_period or longer
    held,           \* per worker, the Requests it claimed and has not committed
    alive,          \* per worker, whether the process still runs
    txn,            \* per worker, its claim between the select and the updates
    call,           \* the commit call of the single caller of CommitSpec
    last            \* the last operation and what it returned

vars == <<requests, transforms, collections, contents, sequence, late, held, alive,
          txn, call, last>>

(***************************************************************************)
(* Bounds of the model.                                                    *)
(***************************************************************************)
\* Ages saturate here. Every time period used below is smaller, so the
\* comparison "updated more than time_period ago" is exact.
MaxAge == 2
\* Largest number of Transform rows the commit model lets the store hold.
MaxTransforms == 3
\* Latest statement of a commit call at which the backend may be made to fail.
MaxFailAt == 6

Workers == {"w1", "w2"}
\* The Request rows of the model.
RequestIds == {1, 2}

(***************************************************************************)
(* Values.                                                                 *)
(***************************************************************************)
None == "None"
\* An optional integer argument: Absent for None, Some(v) for the value v.
Absent == <<>>
Some(v) == <<v>>
Idle == "Idle"
Locking == "Locking"
OK == "ok"
\* The worker has no call between two of its statements.
NoClaim == [n |-> 0]
WrongParameterException == "WrongParameterException"
DuplicatedObject == "DuplicatedObject"
DatabaseException == "DatabaseException"
KeyError == "KeyError"

\* RequestStatus values used by the model.
New == "New"
Transforming == "Transforming"
Failed == "Failed"
Cancelled == "Cancelled"
RequestStatuses == {New, Transforming, Failed, Cancelled}
RequestTypes == {"ESS", "DAOD"}

\* clean_locking(time_period=3600)
DefaultTimePeriod == 3600
\* time_period arguments (seconds); all below MaxAge.
TimePeriods == 1..(MaxAge - 1)

(***************************************************************************)
(* The store and a transaction on it.                                      *)
(*                                                                         *)
(* A store is a record of the three tables. An execution context x is the  *)
(* state of one call running under transactional_session:                  *)
(*   x.c  the committed store (what other transactions read),              *)
(*   x.w  the session's working view (its own uncommitted writes applied), *)
(*   x.n  the number of statements issued to the backend so far,           *)
(*   x.failAt  the statement at which the backend raises (0: never),       *)
(*   x.err  the exception propagating out of the call (OK: none).          *)
(* Once x.err is set every later step is skipped, as with an exception.    *)
(***************************************************************************)
Store == [requests |-> requests, transforms |-> transforms, collections |-> collections]

Begin(st, failAt) == [c |-> st, w |-> st, n |-> 0, failAt |-> failAt, err |-> OK]

Raise(x, e) == IF x.err = OK THEN [x EXCEPT !.err = e] ELSE x

\* One statement reaches the backend; it raises when it is the failing one.
Statement(x) ==
    IF x.err # OK THEN x
    ELSE IF x.n + 1 = x.failAt THEN [x EXCEPT !.n = @ + 1, !.err = DatabaseException]
    ELSE [x EXCEPT !.n = @ + 1]

\* A write made through the caller's session stays in the working view until
\* the caller commits; a write made without a session runs in a transaction
\* of its own and is committed at once.
Write(x, session, st) ==
    IF session THEN [x EXCEPT !.w = st]
    ELSE [x EXCEPT !.w = st, !.c = [x.c EXCEPT !.requests = st.requests,
                                               !.transforms = st.transforms,
                                               !.collections = st.collections]]

\* A call taken up again after statement n: nothing serialises it against the
\* transactions committed in between, its next statements meet the store as
\* those left it.
Resume(st, n, failAt) == [c |-> st, w |-> st, n |-> n, failAt |-> failAt, err |-> OK]

\* transactional_session: commit the working view when the call returns,
\* roll back to the committed store when it raises.
transactional_session(x) == IF x.err = OK THEN x.w ELSE x.c

(***************************************************************************)
(* orm.requests                                                            *)
(***************************************************************************)
\* Matching without the clause on updated_at.
MatchingAnyAge(st, status, request_type, time_period, locking) ==
    {r \in DOMAIN st.requests :
        /\ st.requests[r].status \in status
        /\ (request_type # None => st.requests[r].request_type = request_type)
        /\ (locking => st.requests[r].locking = Idle)}

\* Rows a select by status/type/age may return; with locking only Idle rows.
Matching(st, status, request_type, time_period, locking) ==
    {r \in DOMAIN st.requests :
        /\ st.requests[r].status \in status
        /\ (request_type # None => st.requests[r].request_type = request_type)
        /\ (time_period # Absent => st.requests[r].age > time_period[1])
        /\ (locking => st.requests[r].locking = Idle)}

\* pick is a result set the backend may produce for the query: all matching
\* rows, or any bulk_size of them when bulk_size caps the result.
IsSelection(pick, m, bulk_size) ==
    /\ pick \subseteq m
    /\ IF bulk_size = Absent \/ Cardinality(m) <= bulk_size[1]
       THEN pick = m
       ELSE Cardinality(pick) = bulk_size[1]

\* The row as returned to the caller.
Row(st, r) == [request_id |-> r,
               status |-> st.requests[r].status,
               locking |-> st.requests[r].locking,
               request_type |-> st.requests[r].request_type]

MinOf(ids) == CHOOSE i \in ids : \A j \in ids : i <= j

RECURSIVE RowsOf(_, _)
RowsOf(st, ids) ==
    IF ids = {} THEN <<>>
    ELSE <<Row(st, MinOf(ids))>> \o RowsOf(st, ids \ {MinOf(ids)})

\* [x |-> context, rows |-> result list]
SelectRows(y, pick) ==
    IF y.err # OK THEN [x |-> y, rows |-> <<>>]
    ELSE [x |-> y, rows |-> RowsOf(y.w, pick)]

\* orm_requests.get_requests_by_status_type: one select statement.
orm_get_requests_by_status_type(x, status, request_type, time_period, locking, bulk_size, pick) ==
    SelectRows(Statement(x), pick)

\* The row after a field update; updated_at becomes now.
UpdatedRow(old, parameters) ==
    [f \in DOMAIN old |->
        IF f = "age" THEN 0
        ELSE IF f \in DOMAIN parameters THEN parameters[f]
        ELSE old[f]]

UpdateRequestRow(y, request_id, parameters, session) ==
    IF y.err # OK \/ request_id \notin DOMAIN y.w.requests THEN y
    ELSE Write(y, session,
               [y.w EXCEPT !.requests[request_id] = UpdatedRow(@, parameters)])

\* orm_requests.update_request: one update statement on the row of that id.
orm_update_request(x, request_id, parameters, session) ==
    UpdateRequestRow(Statement(x), request_id, parameters, session)

ResetExpired(y, time_period, session) ==
    IF y.err # OK THEN y
    ELSE Write(y, session,
               [y.w EXCEPT !.requests =
                   [r \in DOMAIN @ |->
                       IF @[r].locking = Locking /\ @[r].age > time_period
                       THEN [@[r] EXCEPT !.locking = Idle]
                       ELSE @[r]]])

\* orm_requests.clean_locking: one update statement over the expired leases.
orm_clean_locking(x, time_period, session) ==
    ResetExpired(Statement(x), time_period, session)

(***************************************************************************)
(* core.requests: the leasing engine                                       *)
(***************************************************************************)
\* LockRows with the session left out of update_request: every update is a
\* transaction of its own.
RECURSIVE LockRowsOwnSession(_, _, _)
LockRowsOwnSession(x, reqs, i) ==
    IF i > Len(reqs) THEN x
    ELSE LockRowsOwnSession(orm_update_request(x, reqs[i].request_id, [locking |-> Locking], FALSE),
                            reqs, i + 1)

\* for req in reqs: update_request(request_id, {'locking': Locking}, session)
RECURSIVE LockRows(_, _, _)
LockRows(x, reqs, i) ==
    IF i > Len(reqs) THEN x
    ELSE LockRows(orm_update_request(x, reqs[i].request_id, [locking |-> Locking], TRUE),
                  reqs, i + 1)

\* Returning with the rows read again after the updates.
ReturningReread(y, reqs) ==
    [x |-> y, rows |-> IF y.err = OK THEN RowsOf(y.w, {reqs[i].request_id : i \in DOMAIN reqs}) ELSE <<>>]

\* Returning without the return statement.
ReturningNothing(y, reqs) == [x |-> y, rows |-> <<>>]

\* return reqs: the list as selected (nothing is returned when the call raises).
Returning(y, reqs) == [x |-> y, rows |-> IF y.err = OK THEN reqs ELSE <<>>]

\* The update run for every call, whatever locking is.
LockSelectedAlways(sel, locking) == Returning(LockRows(sel.x, sel.rows, 1), sel.rows)

\* if locking: ...; return reqs
LockSelected(sel, locking) ==
    Returning(IF locking THEN LockRows(sel.x, sel.rows, 1) ELSE sel.x, sel.rows)

\* The call when no other transaction comes between its statements.
get_requests_by_status_type(x, status, request_type, time_period, locking, bulk_size, pick) ==
    LockSelected(orm_get_requests_by_status_type(x, status, request_type, time_period,
                                                 locking, bulk_size, pick),
                 locking)

\* clean_locking resetting every lease, whatever its age.
clean_locking_any_age(x, time_period) == orm_clean_locking(x, 0 - 1, TRUE)

\* clean_locking with time_period not handed on: the default applies.
clean_locking_default(x, time_period) == orm_clean_locking(x, DefaultTimePeriod, TRUE)

clean_locking(x, time_period) == orm_clean_locking(x, time_period, TRUE)

(***************************************************************************)
(* orm.transforms and orm.collections                                      *)
(***************************************************************************)
\* A dict without one of its keys (del d[k]), and with one more key.
Del(d, k) == [f \in DOMAIN d \ {k} |-> d[f]]
Put(d, k, v) == [f \in DOMAIN d \cup {k} |-> IF f = k THEN v ELSE d[f]]

InsertTransform(y, transform, session) ==
    IF y.err # OK THEN y
    ELSE Write(y, session, [y.w EXCEPT !.transforms = Append(@, transform)])

\* orm_transforms.add_transform: inserts the row; its id is its position.
orm_add_transform(x, transform, session) ==
    InsertTransform(Statement(x), transform, session)

UpdatedTransform(old, parameters) ==
    [f \in DOMAIN old \cup DOMAIN parameters |->
        IF f \in DOMAIN parameters THEN parameters[f] ELSE old[f]]

UpdateTransformRow(y, transform_id, parameters, session) ==
    IF y.err # OK \/ transform_id \notin DOMAIN y.w.transforms THEN y
    ELSE Write(y, session,
               [y.w EXCEPT !.transforms[transform_id] = UpdatedTransform(@, parameters)])

\* orm_transforms.update_transform: field update of the row with that id.
orm_update_transform(x, transform_id, parameters, session) ==
    UpdateTransformRow(Statement(x), transform_id, parameters, session)

InsertCollection(y, collection, session) ==
    IF y.err # OK THEN y
    ELSE IF \E i \in DOMAIN y.w.collections : y.w.collections[i].name = collection.name
         THEN Raise(y, DuplicatedObject)
    ELSE Write(y, session, [y.w EXCEPT !.collections = Append(@, collection)])

\* orm_collections.add_collection: inserts the row unless a Collection of the
\* same scope and name exists; its id is its position.
orm_add_collection(x, collection, session) ==
    InsertCollection(Statement(x), collection, session)

(***************************************************************************)
(* core.requests: the hierarchical commit                                  *)
(***************************************************************************)
\* s = [x |-> context, ids |-> ids collected so far]; y the context after the
\* insert: xxx_coll_ids.append(xxx_coll_id)
Collected(s, y) ==
    [x |-> y, ids |-> IF y.err = OK THEN Append(s.ids, Len(y.w.collections)) ELSE s.ids]

\* AddCollections with the session left out of add_collection: every insert
\* is a transaction of its own.
RECURSIVE AddCollectionsOwnSession(_, _, _, _)
AddCollectionsOwnSession(s, colls, transform_id, i) ==
    IF i > Len(colls) \/ s.x.err # OK THEN s
    ELSE AddCollectionsOwnSession(
             Collected(s, orm_add_collection(s.x, Put(colls[i], "transform_id", transform_id), FALSE)),
             colls, transform_id, i + 1)

\* for collection in collections[...]: stamp with the transform id, insert,
\* collect the id.
RECURSIVE AddCollections(_, _, _, _)
AddCollections(s, colls, transform_id, i) ==
    IF i > Len(colls) \/ s.x.err # OK THEN s
    ELSE AddCollections(
             Collected(s, orm_add_collection(s.x, Put(colls[i], "transform_id", transform_id), TRUE)),
             colls, transform_id, i + 1)

\* The input loop or the log loop: collections[key] raises KeyError when the
\* payload has no such key.
AddKeyed(x, cs, key, transform_id) ==
    IF x.err # OK THEN [x |-> x, ids |-> <<>>]
    ELSE IF key \notin DOMAIN cs THEN [x |-> Raise(x, KeyError), ids |-> <<>>]
    ELSE AddCollections([x |-> x, ids |-> <<>>], cs[key], transform_id, 1)

\* transform['transform_metadata']['workload_id'] if present, else None
WorkloadId(transform) ==
    IF "workload_id" \in DOMAIN transform.transform_metadata
    THEN Some(transform.transform_metadata.workload_id)
    ELSE Absent

\* for collection in collections['output_collections']: stamp, attach the
\* metadata, insert.
RECURSIVE AddOutputCollections(_, _, _, _, _, _, _)
AddOutputCollections(x, colls, transform, transform_id, input_coll_ids, log_coll_ids, i) ==
    IF i > Len(colls) \/ x.err # OK THEN x
    ELSE IF "transform_metadata" \notin DOMAIN transform THEN Raise(x, KeyError)
    ELSE AddOutputCollections(
             orm_add_collection(x,
                 Put(Put(colls[i], "transform_id", transform_id), "coll_metadata",
                     [transform_id |-> transform_id,
                      workload_id |-> WorkloadId(transform),
                      input_collections |-> input_coll_ids,
                      log_collections |-> log_coll_ids]),
                 TRUE),
             colls, transform, transform_id, input_coll_ids, log_coll_ids, i + 1)

\* AfterLogs with the two id lists handed on in the wrong order.
AfterLogsSwapped(input_coll_ids, logs, cs, transform, transform_id) ==
    IF logs.x.err # OK THEN logs.x
    ELSE IF "output_collections" \notin DOMAIN cs THEN Raise(logs.x, KeyError)
    ELSE AddOutputCollections(logs.x, cs.output_collections, transform, transform_id,
                              logs.ids, input_coll_ids, 1)

\* The output loop, after the log loop left logs = [x, ids].
AfterLogs(input_coll_ids, logs, cs, transform, transform_id) ==
    IF logs.x.err # OK THEN logs.x
    ELSE IF "output_collections" \notin DOMAIN cs THEN Raise(logs.x, KeyError)
    ELSE AddOutputCollections(logs.x, cs.output_collections, transform, transform_id,
                              input_coll_ids, logs.ids, 1)

\* The log loop, after the input loop left ins = [x, ids].
AfterInputs(ins, cs, transform, transform_id) ==
    AfterLogs(ins.ids, AddKeyed(ins.x, cs, "log_collections", transform_id),
              cs, transform, transform_id)

\* The three loops, after add_transform left the context x1; the id of the
\* new Transform is the one add_transform returned.
AfterTransform(x1, cs, transform) ==
    AfterInputs(AddKeyed(x1, cs, "input_collections", Len(x1.w.transforms)),
                cs, transform, Len(x1.w.transforms))

\* AddOneTransform without the "'collections' not in transform" test: the
\* subscript raises KeyError.
AddOneTransformNoKeyTest(s, i) ==
    IF "collections" \notin DOMAIN s.add[i]
    THEN [s EXCEPT !.x = Raise(@, KeyError)]
    ELSE IF Cardinality(DOMAIN s.add[i].collections) = 0
    THEN [s EXCEPT !.x = Raise(@, WrongParameterException)]
    ELSE [x |-> AfterTransform(orm_add_transform(s.x, Del(s.add[i], "collections"), TRUE),
                               s.add[i].collections, Del(s.add[i], "collections")),
          add |-> [s.add EXCEPT ![i] = Del(@, "collections")]]

\* AddOneTransform with the session left out of add_transform: the insert
\* of the Transform is a transaction of its own.
AddOneTransformOwnSession(s, i) ==
    IF "collections" \notin DOMAIN s.add[i] \/ Cardinality(DOMAIN s.add[i].collections) = 0
    THEN [s EXCEPT !.x = Raise(@, WrongParameterException)]
    ELSE [x |-> AfterTransform(orm_add_transform(s.x, Del(s.add[i], "collections"), FALSE),
                               s.add[i].collections, Del(s.add[i], "collections")),
          add |-> [s.add EXCEPT ![i] = Del(@, "collections")]]

\* AddOneTransform with the test made after add_transform.
AddOneTransformLateTest(s, i) ==
    IF "collections" \notin DOMAIN s.add[i] \/ Cardinality(DOMAIN s.add[i].collections) = 0
    THEN [s EXCEPT !.x = Raise(orm_add_transform(@, Del(s.add[i], "collections"), TRUE),
                               WrongParameterException)]
    ELSE [x |-> AfterTransform(orm_add_transform(s.x, Del(s.add[i], "collections"), TRUE),
                               s.add[i].collections, Del(s.add[i], "collections")),
          add |-> [s.add EXCEPT ![i] = Del(@, "collections")]]


\* AddOneTransform working on a copy of the entry: the caller's dict keeps
\* its 'collections' key.
AddOneTransformOnCopy(s, i) ==
    IF "collections" \notin DOMAIN s.add[i] \/ Cardinality(DOMAIN s.add[i].collections) = 0
    THEN [s EXCEPT !.x = Raise(@, WrongParameterException)]
    ELSE [x |-> AfterTransform(orm_add_transform(s.x, Del(s.add[i], "collections"), TRUE),
                               s.add[i].collections, Del(s.add[i], "collections")),
          add |-> s.add]

\* The body of "for transform in transforms_to_add" for entry i.
\* s = [x |-> context, add |-> transforms_to_add as the call has left it]
AddOneTransform(s, i) ==
    IF "collections" \notin DOMAIN s.add[i] \/ Cardinality(DOMAIN s.add[i].collections) = 0
    THEN [s EXCEPT !.x = Raise(@, WrongParameterException)]
    ELSE [x |-> AfterTransform(orm_add_transform(s.x, Del(s.add[i], "collections"), TRUE),
                               s.add[i].collections, Del(s.add[i], "collections")),
          add |-> [s.add EXCEPT ![i] = Del(@, "collections")]]

RECURSIVE AddTransforms(_, _)
AddTransforms(s, i) ==
    IF i > Len(s.add) \/ s.x.err # OK THEN s
    ELSE AddTransforms(AddOneTransform(s, i), i + 1)

\* ExtendTransforms with the del of line 143 left out: the id stays in the
\* update payload.
RECURSIVE ExtendTransformsKeepId(_, _)
ExtendTransformsKeepId(s, i) ==
    IF i > Len(s.extend) \/ s.x.err # OK THEN s
    ELSE IF "transform_id" \notin DOMAIN s.extend[i]
         THEN [s EXCEPT !.x = Raise(@, KeyError)]
    ELSE ExtendTransformsKeepId(
             [x |-> orm_update_transform(s.x, s.extend[i].transform_id, s.extend[i], TRUE),
              extend |-> s.extend],
             i + 1)

\* for transform in transforms_to_extend
\* s = [x |-> context, extend |-> transforms_to_extend as the call has left it]
RECURSIVE ExtendTransforms(_, _)
ExtendTransforms(s, i) ==
    IF i > Len(s.extend) \/ s.x.err # OK THEN s
    ELSE IF "transform_id" \notin DOMAIN s.extend[i]
         THEN [s EXCEPT !.x = Raise(@, KeyError)]
    ELSE ExtendTransforms(
             [x |-> orm_update_transform(s.x, s.extend[i].transform_id,
                                         Del(s.extend[i], "transform_id"), TRUE),
              extend |-> [s.extend EXCEPT ![i] = Del(@, "transform_id")]],
             i + 1)

\* return orm_requests.update_request(request_id, parameters, session=session)
UpdateAndReturn(add, e, request_id, parameters) ==
    [x |-> orm_update_request(e.x, request_id, parameters, TRUE),
     transforms_to_add |-> add,
     transforms_to_extend |-> e.extend]

\* ExtendAndUpdate with the Request update made before the second loop.
ReturnExtended(add, e) ==
    [x |-> e.x, transforms_to_add |-> add, transforms_to_extend |-> e.extend]
ExtendAndUpdateFirst(a, transforms_to_extend, request_id, parameters) ==
    ReturnExtended(a.add,
                   ExtendTransforms([x |-> orm_update_request(a.x, request_id, parameters, TRUE),
                                     extend |-> transforms_to_extend], 1))

\* The second loop and the Request update, after the first loop left
\* a = [x, add].
ExtendAndUpdate(a, transforms_to_extend, request_id, parameters) ==
    UpdateAndReturn(a.add, ExtendTransforms([x |-> a.x, extend |-> transforms_to_extend], 1),
                    request_id, parameters)

\* update_request_with_transforms with a test of the lease in front: the
\* call is refused unless the Request is Locking.
update_request_with_transforms_fenced(x, request_id, parameters, transforms_to_add, transforms_to_extend) ==
    IF request_id \in DOMAIN x.w.requests /\ x.w.requests[request_id].locking # Locking
    THEN [x |-> Raise(x, WrongParameterException),
          transforms_to_add |-> transforms_to_add,
          transforms_to_extend |-> transforms_to_extend]
    ELSE ExtendAndUpdate(AddTransforms([x |-> x, add |-> transforms_to_add], 1),
                         transforms_to_extend, request_id, parameters)

\* [x |-> context at exit, transforms_to_add, transforms_to_extend |-> the
\*  caller's lists as the call has left them]
update_request_with_transforms(x, request_id, parameters, transforms_to_add, transforms_to_extend) ==
    ExtendAndUpdate(AddTransforms([x |-> x, add |-> transforms_to_add], 1),
                    transforms_to_extend, request_id, parameters)

(***************************************************************************)
(* Arguments of the commit calls of the model.                             *)
(***************************************************************************)
Coll(name) == [name |-> name]
EmptyDict == [k \in {} |-> <<>>]
MetaWithWorkload == [workload_id |-> 7]
MetaWithoutWorkload == [site |-> "any"]

\* Well-formed entries.
TransformA ==
    [transform_tag |-> "a", transform_metadata |-> MetaWithWorkload,
     collections |-> [input_collections |-> <<Coll("a.in")>>,
                      log_collections |-> <<Coll("a.log")>>,
                      output_collections |-> <<Coll("a.out")>>]]
TransformB ==
    [transform_tag |-> "b", transform_metadata |-> MetaWithoutWorkload,
     collections |-> [input_collections |-> <<Coll("b.in")>>,
                      log_collections |-> <<>>,
                      output_collections |-> <<Coll("b.out")>>]]
\* One of its Collections has the name of one of TransformA's.
TransformDup ==
    [transform_tag |-> "d", transform_metadata |-> MetaWithWorkload,
     collections |-> [input_collections |-> <<Coll("a.in")>>,
                      log_collections |-> <<>>,
                      output_collections |-> <<>>]]
\* No 'collections' key.
TransformNoCollections ==
    [transform_tag |-> "n", transform_metadata |-> MetaWithWorkload]
\* 'collections' is an empty dict.
TransformEmptyDict ==
    [transform_tag |-> "e", transform_metadata |-> MetaWithWorkload, collections |-> EmptyDict]
\* 'collections' holds three empty lists.
TransformEmptyLists ==
    [transform_tag |-> "l", transform_metadata |-> MetaWithWorkload,
     collections |-> [input_collections |-> <<>>,
                      log_collections |-> <<>>,
                      output_collections |-> <<>>]]
\* 'collections' lacks the log_collections key.
TransformNoLogKey ==
    [transform_tag |-> "k", transform_metadata |-> MetaWithWorkload,
     collections |-> [input_collections |-> <<Coll("k.in")>>,
                      output_collections |-> <<Coll("k.out")>>]]
\* An output Collection but no 'transform_metadata' key.
TransformNoMetadata ==
    [transform_tag |-> "m",
     collections |-> [input_collections |-> <<>>,
                      log_collections |-> <<>>,
                      output_collections |-> <<Coll("m.out")>>]]

BatchEntries == {TransformA, TransformB, TransformDup, TransformNoCollections,
                 TransformEmptyLists, TransformNoLogKey}

CommitAdds ==
    {<<>>, <<TransformEmptyDict>>, <<TransformNoMetadata>>}
    \cup {<<t>> : t \in BatchEntries}
    \cup {<<t, u>> : t \in BatchEntries, u \in BatchEntries}

CommitExtends ==
    {<<>>, <<[transform_id |-> 1, status |-> "Extended"]>>, <<[status |-> "Extended"]>>,
     <<[transform_id |-> 2, transform_tag |-> "x"], [transform_id |-> 1, status |-> "Extended"]>>}

CommitParameters == {[status |-> Transforming, locking |-> Idle], [status |-> Failed]}

\* What a worker of the lease model commits.
LeaseAdds == {<<>>, <<TransformA>>}

(***************************************************************************)
(* State machine of the lease model.                                       *)
(*                                                                         *)
(* A locking call of get_requests_by_status_type is a select followed by   *)
(* one update for each row, each a call to the backend of its own, and     *)
(* nothing in the code keeps other transactions from committing between    *)
(* them. The call is two steps here: the select (ClaimWith), and the       *)
(* updates with the return (LockWith); txn holds the rows selected in      *)
(* between. A call with nothing to update is over with its select.         *)
(***************************************************************************)
Ids(rows) == {rows[i].request_id : i \in DOMAIN rows}

StatusSets == {{New}, RequestStatuses}
ClaimBulks == {Absent, Some(1)}
\* A claim selects, then updates each selected row: at most this many statements.
ClaimStatements == Cardinality(RequestIds) + 1

\* Requests as add_request leaves them: New and Idle, just created.
InitRequests ==
    [r \in RequestIds |-> [status |-> New, locking |-> Idle,
                           request_type |-> IF r = 1 THEN "ESS" ELSE "DAOD", age |-> 0]]

Init ==
    /\ requests = InitRequests
    /\ transforms = <<>>
    /\ collections = <<>>
    /\ contents = <<>>
    /\ sequence = Cardinality(RequestIds) + 1
    /\ late = {}
    /\ held = [w \in Workers |-> {}]
    /\ alive = [w \in Workers |-> TRUE]
    /\ txn = [w \in Workers |-> NoClaim]
    /\ call = [phase |-> "idle"]
    /\ last = [op |-> "init"]

\* What a claim leaves behind: the transaction ends, the worker keeps what a
\* locking claim returned.
ClaimDone(w, locking, res) ==
    /\ requests' = transactional_session(res.x).requests
    /\ txn' = [txn EXCEPT ![w] = NoClaim]
    /\ held' = IF res.x.err = OK /\ locking
               THEN [held EXCEPT ![w] = @ \cup Ids(res.rows)]
               ELSE held
    /\ last' = [op |-> "claim", w |-> w, locking |-> locking, err |-> res.x.err,
                n |-> res.x.n, rows |-> res.rows]

\* The rows a locking call has selected and not yet updated.
InFlight(w) == IF txn[w] = NoClaim THEN <<>> ELSE txn[w].rows

\* The select of a locking call has returned rows: the call stands between
\* its select and its first update, nothing of it is written yet.
SelectDone(w, sel) ==
    /\ txn' = [txn EXCEPT ![w] = [n |-> sel.x.n, rows |-> sel.rows]]
    /\ last' = [op |-> "select", w |-> w, rows |-> sel.rows]
    /\ UNCHANGED <<requests, held>>

\* After the select: a call with updates to make goes on in a later step,
\* any other call has nothing more to send and returns.
AfterSelect(w, locking, sel) ==
    IF locking /\ sel.x.err = OK /\ sel.rows # <<>>
    THEN SelectDone(w, sel)
    ELSE ClaimDone(w, locking, LockSelected(sel, locking))

\* A worker calls get_requests_by_status_type with arguments of the given
\* sets: the step up to and with the select.
ClaimWith(w, statuses, types, periods, lockings, bulks, fails) ==
    /\ alive[w]
    /\ txn[w] = NoClaim
    /\ \E status \in statuses, request_type \in types, time_period \in periods,
          locking \in lockings, bulk_size \in bulks, failAt \in fails :
       \E pick \in SUBSET Matching(Store, status, request_type, time_period, locking) :
        /\ IsSelection(pick, Matching(Store, status, request_type, time_period, locking), bulk_size)
        /\ AfterSelect(w, locking,
               orm_get_requests_by_status_type(Begin(Store, failAt), status, request_type,
                                               time_period, locking, bulk_size, pick))
    /\ UNCHANGED <<transforms, collections, alive, call, contents, sequence, late>>

\* A worker polls for work to lock.
Claim(w) == ClaimWith(w, StatusSets, {None}, {Absent}, {TRUE}, ClaimBulks, 0..1)

\* The rest of a locking call: one update for each row selected, then the
\* return and with it the commit. The updates stay in the session until the
\* commit, so no other transaction meets a state between them.
LockWith(w, fails) ==
    /\ alive[w]
    /\ txn[w] # NoClaim
    /\ \E failAt \in fails :
          ClaimDone(w, TRUE,
              LockSelected([x |-> Resume(Store, txn[w].n, failAt), rows |-> txn[w].rows],
                           TRUE))
    /\ UNCHANGED <<transforms, collections, alive, call, contents, sequence, late>>

Lock(w) == LockWith(w, {0} \cup 2..ClaimStatements)

SweepDone(time_period, x) ==
    /\ requests' = transactional_session(x).requests
    /\ last' = [op |-> "clean_locking", time_period |-> time_period, err |-> x.err]

SweepWith(periods, fails) ==
    /\ \E time_period \in periods, failAt \in fails :
        SweepDone(time_period, clean_locking(Begin(Store, failAt), time_period))
    /\ UNCHANGED <<transforms, collections, held, alive, txn, call, contents, sequence, late>>

\* The reclaim sweep.
Sweep == SweepWith(TimePeriods, 0..1)

\* One second passes.
Tick ==
    /\ \E r \in DOMAIN requests : requests[r].age < MaxAge
    /\ requests' = [r \in DOMAIN requests |->
                      [requests[r] EXCEPT !.age = IF @ < MaxAge THEN @ + 1 ELSE @]]
    /\ last' = [op |-> "tick"]
    /\ UNCHANGED <<transforms, collections, held, alive, txn, call, contents, sequence, late>>

\* A worker dies (or hangs for good) with whatever it holds; the transaction
\* it had open is gone with its connection.
Crash(w) ==
    /\ alive[w]
    /\ \E v \in Workers \ {w} : alive[v]
    /\ alive' = [alive EXCEPT ![w] = FALSE]
    /\ txn' = [txn EXCEPT ![w] = NoClaim]
    /\ last' = [op |-> "crash", w |-> w]
    /\ UNCHANGED <<requests, transforms, collections, held, call, contents, sequence, late>>

CommitDone(w, r, res) ==
    /\ requests' = transactional_session(res.x).requests
    /\ transforms' = transactional_session(res.x).transforms
    /\ collections' = transactional_session(res.x).collections
    /\ held' = IF res.x.err = OK THEN [held EXCEPT ![w] = @ \ {r}] ELSE held
    /\ last' = [op |-> "commit", w |-> w, request_id |-> r, err |-> res.x.err, n |-> res.x.n]

\* A worker commits a Request it holds: the new status, the lock released,
\* and possibly the Transform it discovered.
CommitWith(w, adds) ==
    /\ alive[w]
    /\ txn[w] = NoClaim
    /\ \E r \in held[w], add \in adds, failAt \in 0..1 :
        CommitDone(w, r,
                   update_request_with_transforms(Begin(Store, failAt), r,
                       [status |-> Transforming, locking |-> Idle], add, <<>>))
    /\ UNCHANGED <<alive, txn, call, contents, sequence, late>>

Commit(w) == CommitWith(w, LeaseAdds)

Next ==
    \/ \E w \in Workers : Claim(w)
    \/ \E w \in Workers : Lock(w)
    \/ \E w \in Workers : Commit(w)
    \/ Sweep
    \/ Tick
    \/ \E w \in Workers : Crash(w)

Spec == Init /\ [][Next]_vars

\* The same system under the scheduling the recovery relies on: time passes,
\* the sweep keeps being run and keeps getting through to the backend, and
\* every worker that is alive keeps polling, without a bulk limit, for
\* Requests of any status, and finishes the calls it has begun.
SweepRuns == SweepWith(TimePeriods, {0})

\* The select of such a poll when the backend does not fail, written out: it
\* selects every Idle Request; with none it returns at once.
IdleIds == {r \in DOMAIN requests : requests[r].locking = Idle}
PollAll(w) ==
    /\ alive[w]
    /\ txn[w] = NoClaim
    /\ IF IdleIds = {}
       THEN /\ last' = [op |-> "claim", w |-> w, locking |-> TRUE, err |-> OK, n |-> 1,
                        rows |-> <<>>]
            /\ txn' = txn
       ELSE /\ last' = [op |-> "select", w |-> w, rows |-> RowsOf(Store, IdleIds)]
            /\ txn' = [txn EXCEPT ![w] = [n |-> 1, rows |-> RowsOf(Store, IdleIds)]]
    /\ UNCHANGED <<requests, held, transforms, collections, alive, call, contents,
                   sequence, late>>

\* The rest of a call that has selected, when the backend does not fail,
\* written out: it locks each row selected and returns the rows as selected.
Locked(w) ==
    [r \in DOMAIN requests |->
        IF r \in Ids(InFlight(w)) THEN [requests[r] EXCEPT !.locking = Locking, !.age = 0]
        ELSE requests[r]]
LockRuns(w) ==
    /\ alive[w]
    /\ txn[w] # NoClaim
    /\ requests' = Locked(w)
    /\ held' = [held EXCEPT ![w] = @ \cup Ids(txn[w].rows)]
    /\ txn' = [txn EXCEPT ![w] = NoClaim]
    /\ last' = [op |-> "claim", w |-> w, locking |-> TRUE, err |-> OK,
                n |-> txn[w].n + Len(txn[w].rows), rows |-> txn[w].rows]
    /\ UNCHANGED <<transforms, collections, alive, call, contents, sequence, late>>

\* PollAll and LockRuns are the steps the call takes with these arguments:
\* in every state the select and the update loop give what they write out.
PollAllAsCoded ==
    /\ Matching(Store, RequestStatuses, None, Absent, TRUE) = IdleIds
    /\ orm_get_requests_by_status_type(Begin(Store, 0), RequestStatuses, None, Absent,
                                       TRUE, Absent, IdleIds)
          = [x |-> [c |-> Store, w |-> Store, n |-> 1, failAt |-> 0, err |-> OK],
             rows |-> RowsOf(Store, IdleIds)]
    /\ \A w \in Workers :
          txn[w] # NoClaim =>
             LockSelected([x |-> Resume(Store, txn[w].n, 0), rows |-> txn[w].rows], TRUE)
               = [x |-> [c |-> Store, w |-> [Store EXCEPT !.requests = Locked(w)],
                         n |-> txn[w].n + Len(txn[w].rows), failAt |-> 0, err |-> OK],
                  rows |-> txn[w].rows]

\* The commits of this system add no Transform: the lease is the same with
\* and without them.
CommitPlain(w) == CommitWith(w, {<<>>})

\* A poll, which the backend may fail.
Poll(w) == ClaimWith(w, {RequestStatuses}, {None}, {Absent}, {TRUE}, {Absent}, 0..1)

LiveNext ==
    \/ \E w \in Workers : Poll(w)
    \/ \E w \in Workers : Lock(w)
    \/ \E w \in Workers : CommitPlain(w)
    \/ Sweep
    \/ Tick
    \/ \E w \in Workers : Crash(w)

LiveSpec ==
    /\ Init /\ [][LiveNext]_vars
    /\ WF_vars(Tick)
    /\ WF_vars(SweepRuns)
    /\ \A w \in Workers : SF_vars(PollAll(w)) /\ SF_vars(LockRuns(w))

(***************************************************************************)
(* Properties of the leasing engine (checked under Spec).                  *)
(***************************************************************************)
Holders(r) == {w \in Workers : r \in held[w]}
IsLockingClaim(l) == l.op = "claim" /\ l.locking

\* C1: when the locking claims of two workers return one right after the
\* other (no other operation and no time between the two returns, the second
\* call begun before or after the first returned), no Request is in both
\* results.
C1_MutualExclusion ==
    [][(IsLockingClaim(last) /\ IsLockingClaim(last') /\ last'.w # last.w)
         => Ids(last.rows) \cap Ids(last'.rows) = {}]_vars

\* C2: a successful clean_locking(time_period) sets to Idle the locking field,
\* and nothing else, of every Request that is Locking and was updated more than
\* time_period seconds ago; it leaves unchanged every Request that is Idle or
\* was updated less than time_period seconds ago.
C2_CleanLocking ==
    [][(last'.op = "clean_locking" /\ last'.err = OK)
         => \A r \in DOMAIN requests :
              /\ (requests[r].locking = Locking /\ requests[r].age > last'.time_period)
                    => requests'[r] = [requests[r] EXCEPT !.locking = Idle]
              /\ (requests[r].locking = Idle \/ requests[r].age < last'.time_period)
                    => requests'[r] = requests[r]]_vars

\* A sweep has run with one expired lease reset (still in its worker's hands)
\* and one fresh lease left alone.
C2_Witness ==
    /\ last.op = "clean_locking" /\ last.err = OK
    /\ \E r \in DOMAIN requests :
          requests[r].locking = Idle /\ requests[r].age > last.time_period /\ Holders(r) # {}
    /\ \E r \in DOMAIN requests :
          requests[r].locking = Locking /\ requests[r].age < last.time_period

\* C7: the select of a locking claim takes the rows as they are in the store
\* (each shows locking = Idle) and writes nothing; a successful locking claim
\* returns the rows as its select took them, not read again, sets locking to
\* Locking on every returned Request and changes no other Request.
C7_PreLockSnapshot ==
    [][/\ last'.op = "select"
             => /\ \A i \in DOMAIN last'.rows :
                      /\ last'.rows[i] = Row(Store, last'.rows[i].request_id)
                      /\ last'.rows[i].locking = Idle
                /\ txn'[last'.w].rows = last'.rows
                /\ requests' = requests
       /\ (IsLockingClaim(last') /\ last'.err = OK)
             => /\ last'.rows = InFlight(last'.w)
                /\ \A i \in DOMAIN last'.rows : last'.rows[i].locking = Idle
                /\ \A r \in DOMAIN requests :
                      IF r \in Ids(last'.rows)
                      THEN requests'[r].locking = Locking
                      ELSE requests'[r] = requests[r]]_vars

\* A locking claim has returned one Request, now Locking in the store while
\* the returned row shows Idle, and has left another one alone.
C7_Witness ==
    /\ IsLockingClaim(last) /\ last.err = OK /\ Len(last.rows) = 1
    /\ last.rows[1].locking = Idle
    /\ requests[last.rows[1].request_id].locking = Locking
    /\ \E r \in DOMAIN requests : r \notin Ids(last.rows) /\ requests[r].locking = Idle

\* C8 as claimed: a Request is Locking only while exactly one worker holds a
\* claim on it.
C8_ExactlyOneHolder ==
    \A r \in DOMAIN requests :
        requests[r].locking = Locking => Cardinality(Holders(r)) = 1

\* C8 as amended: a Request is Locking only while at least one worker holds a
\* claim on it, and its locking field goes from Locking to Idle only in the
\* successful commit of a worker holding a claim on it or in a clean_locking
\* whose time_period it has outlived.
C8_HeldWhileLocking ==
    /\ [](\A r \in DOMAIN requests : requests[r].locking = Locking => Holders(r) # {})
    /\ [][\A r \in DOMAIN requests :
             (requests[r].locking = Locking /\ requests'[r].locking = Idle)
                => \/ /\ last'.op = "commit" /\ last'.err = OK /\ last'.request_id = r
                      /\ last'.w \in Holders(r)
                   \/ /\ last'.op = "clean_locking" /\ last'.err = OK
                      /\ requests[r].age > last'.time_period]_vars

\* A worker has committed a Request that another worker still holds a claim
\* on.
C8_Witness ==
    /\ last.op = "commit" /\ last.err = OK
    /\ requests[last.request_id].locking = Idle
    /\ Holders(last.request_id) # {}

\* Request r is locked and every worker holding a claim on it is dead.
Abandoned(r) ==
    /\ requests[r].locking = Locking
    /\ Holders(r) # {}
    /\ \A w \in Holders(r) : ~alive[w]
ReturnedByClaim(r) ==
    IsLockingClaim(last) /\ last.err = OK /\ alive[last.w] /\ r \in Ids(last.rows)

\* C9: under LiveSpec, a Request locked by a worker that then dies without
\* committing it eventually has locking = Idle again, and is eventually
\* returned by a locking claim of a worker that is alive.
C9_LeaseRecovery ==
    \A r \in RequestIds :
        /\ Abandoned(r) ~> (requests[r].locking = Idle)
        /\ Abandoned(r) ~> ReturnedByClaim(r)

\* A worker that is alive has just been returned a Request that a dead worker
\* had claimed and never committed.
C9_Witness ==
    /\ IsLockingClaim(last) /\ last.err = OK /\ alive[last.w]
    /\ \E r \in Ids(last.rows) : \E w \in Holders(r) : ~alive[w]

\* C10: a locking claim that fails fails with the backend's error, returns
\* nothing and leaves every Request, and what the worker holds, as it was.
C10_NoPartialLock ==
    [][(IsLockingClaim(last') /\ last'.err # OK)
         => /\ last'.err = DatabaseException
            /\ last'.rows = <<>>
            /\ requests' = requests
            /\ held' = held]_vars

\* A claim has failed on its last update, the earlier ones issued.
C10_Witness ==
    /\ IsLockingClaim(last) /\ last.err = DatabaseException
    /\ last.n = ClaimStatements

(***************************************************************************)
(* State machine of the commit model: one caller of                        *)
(* update_request_with_transforms.                                         *)
(***************************************************************************)
\* The caller builds its arguments.
Invoke ==
    /\ call.phase = "idle"
    /\ \E request_id \in {1}, parameters \in CommitParameters, add \in CommitAdds,
          extend \in CommitExtends, failAt \in 0..MaxFailAt :
        /\ Len(transforms) + Len(add) <= MaxTransforms
        /\ call' = [phase |-> "called", request_id |-> request_id, parameters |-> parameters,
                    transforms_to_add |-> add, transforms_to_extend |-> extend,
                    failAt |-> failAt]
    /\ last' = [op |-> "invoke"]
    /\ UNCHANGED <<requests, transforms, collections, held, alive, txn, contents, sequence, late>>

ExecuteDone(res) ==
    /\ requests' = transactional_session(res.x).requests
    /\ transforms' = transactional_session(res.x).transforms
    /\ collections' = transactional_session(res.x).collections
    /\ call' = [call EXCEPT !.phase = "returned",
                            !.transforms_to_add = res.transforms_to_add,
                            !.transforms_to_extend = res.transforms_to_extend]
    /\ last' = [op |-> "commit", w |-> "caller", request_id |-> call.request_id,
                err |-> res.x.err, n |-> res.x.n]

\* The call runs, in one transaction.
Execute ==
    /\ call.phase = "called"
    /\ ExecuteDone(update_request_with_transforms(Begin(Store, call.failAt), call.request_id,
                       call.parameters, call.transforms_to_add, call.transforms_to_extend))
    /\ UNCHANGED <<held, alive, txn, contents, sequence, late>>

\* The caller drops its arguments.
Return ==
    /\ call.phase = "returned"
    /\ call' = [phase |-> "idle"]
    /\ last' = [op |-> "return"]
    /\ UNCHANGED <<requests, transforms, collections, held, alive, txn, contents, sequence, late>>

CommitNext == Invoke \/ Execute \/ Return

CommitSpec == Init /\ [][CommitNext]_vars
(***************************************************************************)
(* Properties of the hierarchical commit (checked under CommitSpec).       *)
(***************************************************************************)
\* The step in which the pending call runs and fails / succeeds.
Executes == call.phase = "called" /\ last'.op = "commit"
Persisted == <<requests, transforms, collections>>
HasNoCollections(add) == \E i \in DOMAIN add : "collections" \notin DOMAIN add[i]
FirstWithout(add) ==
    CHOOSE i \in DOMAIN add :
        /\ "collections" \notin DOMAIN add[i]
        /\ \A j \in 1..(i - 1) : "collections" \in DOMAIN add[j]
\* An entry with nothing wrong in its shape: the three lists and the metadata.
WellFormed(t) ==
    /\ {"collections", "transform_metadata"} \subseteq DOMAIN t
    /\ DOMAIN t.collections = {"input_collections", "log_collections", "output_collections"}

\* C3: a call of update_request_with_transforms that fails, whatever the
\* failure and however many rows it had inserted, leaves the Requests, the
\* Transforms and the Collections of the store exactly as they were.
C3_Atomicity ==
    [][(Executes /\ last'.err # OK) => Persisted' = Persisted]_vars

\* A batch of two has failed on a name clash in its second entry, after the
\* Transform and the Collections of the first had been inserted.
C3_Witness ==
    /\ call.phase = "returned" /\ last.op = "commit"
    /\ Len(call.transforms_to_add) = 2
    /\ last.err = DuplicatedObject /\ last.n >= 5

\* C4 as claimed: a call with an entry that has no 'collections' key fails with
\* WrongParameterException and persists nothing (here: no backend failure, and
\* every other entry well formed).
C4_AlwaysWrongParameter ==
    [][(/\ Executes /\ HasNoCollections(call.transforms_to_add) /\ call.failAt = 0
        /\ \A i \in DOMAIN call.transforms_to_add :
              "collections" \in DOMAIN call.transforms_to_add[i]
                  => WellFormed(call.transforms_to_add[i]))
         => (last'.err = WrongParameterException /\ Persisted' = Persisted)]_vars

\* C4 as amended: a call with an entry that has no 'collections' key fails and
\* persists nothing; it fails with WrongParameterException when the entries
\* before that one are processed without error, and with the error of the
\* first entry that fails otherwise.
C4_MissingCollections ==
    [][(Executes /\ HasNoCollections(call.transforms_to_add))
         => /\ last'.err # OK
            /\ Persisted' = Persisted
            /\ last'.err = WrongParameterException
                  <=> AddTransforms([x |-> Begin(Store, call.failAt),
                                     add |-> SubSeq(call.transforms_to_add, 1,
                                                    FirstWithout(call.transforms_to_add) - 1)],
                                    1).x.err = OK]_vars

\* A batch of two has failed with WrongParameterException on its second entry,
\* after the four inserts of the first.
C4_Witness ==
    /\ call.phase = "returned" /\ last.op = "commit"
    /\ Len(call.transforms_to_add) = 2
    /\ last.err = WrongParameterException /\ last.n = 4

\* C5: every Transform of the store has at least one Collection.
C5_TransformHasCollection ==
    \A t \in DOMAIN transforms :
        \E c \in DOMAIN collections : collections[c].transform_id = t

\* Number of Collections entry t asks for, and the number of rows the entries
\* before entry k have added.
CollectionCount(t) ==
    Len(t.collections.input_collections) + Len(t.collections.log_collections)
        + Len(t.collections.output_collections)
RECURSIVE RowsBefore(_, _)
RowsBefore(add, k) ==
    IF k = 1 THEN 0 ELSE RowsBefore(add, k - 1) + CollectionCount(add[k - 1])
\* What a successful call must have stored for entry t, the k-th of the batch,
\* when its Transform got the id tid and its first Collection the id first + 1.
OutputsAsExpected(t, tid, first, ni, nl) ==
    /\ \A q \in 1..ni :
          /\ collections'[first + q].name = t.collections.input_collections[q].name
          /\ collections'[first + q].transform_id = tid
    /\ \A q \in 1..nl :
          /\ collections'[first + ni + q].name = t.collections.log_collections[q].name
          /\ collections'[first + ni + q].transform_id = tid
    /\ \A q \in 1..Len(t.collections.output_collections) :
          /\ collections'[first + ni + nl + q].name = t.collections.output_collections[q].name
          /\ collections'[first + ni + nl + q].transform_id = tid
          /\ collections'[first + ni + nl + q].coll_metadata =
                [transform_id |-> tid,
                 workload_id |-> IF "workload_id" \in DOMAIN t.transform_metadata
                                 THEN Some(t.transform_metadata.workload_id) ELSE Absent,
                 input_collections |-> [q2 \in 1..ni |-> first + q2],
                 log_collections |-> [q2 \in 1..nl |-> first + ni + q2]]

\* C6: after a successful call, every output Collection of every added
\* Transform carries coll_metadata with that Transform's id, its workload_id
\* (None when the metadata has none), and the ids of exactly the input and the
\* log Collections created for that same Transform, in order.
C6_OutputMetadata ==
    [][(Executes /\ last'.err = OK)
         => \A k \in DOMAIN call.transforms_to_add :
               OutputsAsExpected(call.transforms_to_add[k],
                                 Len(transforms) + k,
                                 Len(collections) + RowsBefore(call.transforms_to_add, k),
                                 Len(call.transforms_to_add[k].collections.input_collections),
                                 Len(call.transforms_to_add[k].collections.log_collections))]_vars

\* A batch of two Transforms has been committed on top of an earlier one: the
\* store holds output Collections with and without a workload_id, and one
\* whose inputs are not the first Collections of the store.
C6_Witness ==
    /\ call.phase = "returned" /\ last.op = "commit" /\ last.err = OK
    /\ Len(call.transforms_to_add) = 2
    /\ \E c \in DOMAIN collections :
          /\ "coll_metadata" \in DOMAIN collections[c]
          /\ collections[c].coll_metadata.workload_id = Absent
    /\ \E c \in DOMAIN collections :
          /\ "coll_metadata" \in DOMAIN collections[c]
          /\ collections[c].coll_metadata.workload_id # Absent
          /\ collections[c].coll_metadata.log_collections # <<>>
          /\ collections[c].coll_metadata.input_collections # <<1>>
(***************************************************************************)
(* The commit in flight: the statements of one call of                     *)
(* update_request_with_transforms reach the backend one by one, and the    *)
(* tables show, at every moment, what any other transaction can read.      *)
(* The call is call = [phase, arguments, before |-> the store when the     *)
(* transaction began, issued |-> statements sent so far].                  *)
(***************************************************************************)
\* The context of the call at its exit.
Complete(c) ==
    update_request_with_transforms(Begin(c.before, 0), c.request_id, c.parameters,
                                   c.transforms_to_add, c.transforms_to_extend).x

\* The context of the call once k of its statements have been sent: the call
\* as it stands when statement k + 1 is held back.
CutAfter(c, k) ==
    update_request_with_transforms(Begin(c.before, k + 1), c.request_id, c.parameters,
                                   c.transforms_to_add, c.transforms_to_extend).x

\* The caller opens the transaction and enters the function.
Submit ==
    /\ call.phase = "idle"
    /\ \E parameters \in CommitParameters, add \in CommitAdds, extend \in CommitExtends :
        /\ Len(transforms) + Len(add) <= MaxTransforms
        /\ call' = [phase |-> "open", request_id |-> 1, parameters |-> parameters,
                    transforms_to_add |-> add, transforms_to_extend |-> extend,
                    before |-> Store, issued |-> 0]
    /\ last' = [op |-> "submit"]
    /\ UNCHANGED <<requests, transforms, collections, held, alive, txn, contents, sequence, late>>

\* What is committed in the backend while the call is at context x.
IssueDone(x) ==
    /\ requests' = x.c.requests
    /\ transforms' = x.c.transforms
    /\ collections' = x.c.collections

\* The next statement of the call reaches the backend.
Issue ==
    /\ call.phase = "open"
    /\ call.issued < Complete(call).n
    /\ IssueDone(CutAfter(call, call.issued + 1))
    /\ call' = [call EXCEPT !.issued = @ + 1]
    /\ last' = [op |-> "issue"]
    /\ UNCHANGED <<held, alive, txn, contents, sequence, late>>

CloseDone(x) ==
    /\ requests' = transactional_session(x).requests
    /\ transforms' = transactional_session(x).transforms
    /\ collections' = transactional_session(x).collections
    /\ last' = [op |-> "commit", w |-> "caller", request_id |-> call.request_id,
                err |-> x.err, n |-> x.n]

\* The function returns or raises: the transaction commits or rolls back.
Close ==
    /\ call.phase = "open"
    /\ call.issued = Complete(call).n
    /\ CloseDone(Complete(call))
    /\ call' = [call EXCEPT !.phase = "closed"]
    /\ UNCHANGED <<held, alive, txn, contents, sequence, late>>

\* The caller moves on.
Forget ==
    /\ call.phase = "closed"
    /\ call' = [phase |-> "idle"]
    /\ last' = [op |-> "return"]
    /\ UNCHANGED <<requests, transforms, collections, held, alive, txn, contents, sequence, late>>

FlightNext == Submit \/ Issue \/ Close \/ Forget

FlightSpec == Init /\ [][FlightNext]_vars

(***************************************************************************)
(* Properties of the commit in flight (checked under FlightSpec).          *)
(***************************************************************************)
ListKeys == {"input_collections", "log_collections", "output_collections"}
CollectionsOf(t) == {i \in DOMAIN collections : collections[i].transform_id = t}
\* Everything call c asks for is in the tables: each added Transform with all
\* its Collections, each extension, and the Request update.
AllPresent(c) ==
    /\ Len(transforms) = Len(c.before.transforms) + Len(c.transforms_to_add)
    /\ \A k \in DOMAIN c.transforms_to_add :
          /\ "collections" \in DOMAIN c.transforms_to_add[k]
          /\ DOMAIN c.transforms_to_add[k].collections = ListKeys
          /\ Cardinality(CollectionsOf(Len(c.before.transforms) + k))
                = Len(c.transforms_to_add[k].collections.input_collections)
                  + Len(c.transforms_to_add[k].collections.log_collections)
                  + Len(c.transforms_to_add[k].collections.output_collections)
    /\ \A e \in DOMAIN c.transforms_to_extend :
          /\ "transform_id" \in DOMAIN c.transforms_to_extend[e]
          /\ c.transforms_to_extend[e].transform_id \in DOMAIN transforms
                => \A f \in DOMAIN c.transforms_to_extend[e] \ {"transform_id"} :
                      transforms[c.transforms_to_extend[e].transform_id][f]
                          = c.transforms_to_extend[e][f]
    /\ \A f \in DOMAIN c.parameters : requests[c.request_id][f] = c.parameters[f]

\* C11: while a call of update_request_with_transforms is in flight, and once
\* it is over, the tables another transaction reads hold either nothing of
\* the call (they are as when it began) or all of it: every added Transform
\* with all its Collections, the extensions and the Request update.
C11_AllOrNothingVisible ==
    call.phase \in {"open", "closed"} => (Store = call.before \/ AllPresent(call))

\* A call adding two Transforms is in flight with at least five statements
\* sent and none of their rows to be read.
C11_Witness ==
    /\ call.phase = "open" /\ call.issued >= 5
    /\ Len(call.transforms_to_add) = 2
    /\ Store = call.before
(***************************************************************************)
(* Further properties of the hierarchical commit (checked under            *)
(* CommitSpec).                                                            *)
(***************************************************************************)
\* The entries the test of line 114 rejects.
Invalid(t) == "collections" \notin DOMAIN t \/ DOMAIN t.collections = {}
FirstInvalid(add) ==
    CHOOSE i \in DOMAIN add :
        Invalid(add[i]) /\ \A j \in 1..(i - 1) : ~Invalid(add[j])
\* Statements the entries before entry i send: one insert for the Transform
\* and one for each of its Collections.
RECURSIVE StatementsBefore(_, _)
StatementsBefore(add, i) ==
    IF i = 1 THEN 0
    ELSE StatementsBefore(add, i - 1) + 1 + CollectionCount(add[i - 1])

\* C12 as claimed: when update_request_with_transforms fails with the
\* validation error, no statement of the call has been sent to the backend
\* and nothing is persisted.
C12_NoStatementBeforeValidation ==
    [][(Executes /\ last'.err = WrongParameterException)
         => (last'.n = 0 /\ Persisted' = Persisted)]_vars

\* C12 as amended: when update_request_with_transforms fails with the
\* validation error, the statements sent to the backend are exactly those of
\* the entries before the first invalid one (none when it is the first entry
\* of the list), and nothing is persisted.
C12_ValidationPerEntry ==
    [][(Executes /\ last'.err = WrongParameterException)
         => /\ last'.n = StatementsBefore(call.transforms_to_add,
                                          FirstInvalid(call.transforms_to_add))
            /\ Persisted' = Persisted]_vars

\* A call has failed with the validation error on its second entry, the
\* three inserts of the first one sent.
C12_Witness ==
    /\ call.phase = "returned" /\ last.op = "commit"
    /\ Len(call.transforms_to_add) = 2
    /\ last.err = WrongParameterException /\ last.n = 3
\* C13: a call whose only entry has a 'collections' payload with one of the
\* three lists missing fails with WrongParameterException and persists
\* nothing (no backend failure involved).
C13_MissingListKey ==
    [][(/\ Executes /\ call.failAt = 0
        /\ Len(call.transforms_to_add) = 1
        /\ "collections" \in DOMAIN call.transforms_to_add[1]
        /\ DOMAIN call.transforms_to_add[1].collections # {}
        /\ DOMAIN call.transforms_to_add[1].collections # ListKeys)
         => (last'.err = WrongParameterException /\ Persisted' = Persisted)]_vars
\* The row of Transform t before the extensions of the call: the row of the
\* store, or the entry of transforms_to_add (less its collections) that the
\* call inserts as Transform t.
RowBeforeExtend(t) ==
    IF t <= Len(transforms) THEN transforms[t]
    ELSE [f \in DOMAIN call.transforms_to_add[t - Len(transforms)] \ {"collections"} |->
             call.transforms_to_add[t - Len(transforms)][f]]
\* Row after equals row before with the fields of entry e, less its
\* transform_id, written over it.
ExtendedBy(after, before, e) ==
    /\ DOMAIN after = DOMAIN before \cup (DOMAIN e \ {"transform_id"})
    /\ \A f \in DOMAIN after :
          after[f] = IF f \in DOMAIN e \ {"transform_id"} THEN e[f] ELSE before[f]
AllStatements(c) ==
    StatementsBefore(c.transforms_to_add, Len(c.transforms_to_add) + 1)
        + Len(c.transforms_to_extend) + 1

\* C14: a successful call sends one update for each entry of
\* transforms_to_extend and leaves the Transform it names with the fields of
\* the entry, less transform_id, written over its row; every other Transform
\* is as stored or as inserted; the Request carries the parameters. The
\* Request update comes last: a call that raises in the second loop has sent
\* the statements of the first loop and nothing else.
C14_ExtendThenUpdate ==
    [][Executes =>
        /\ last'.err = OK =>
              /\ last'.n = AllStatements(call)
              /\ \A t \in DOMAIN transforms' :
                    /\ \A e \in DOMAIN call.transforms_to_extend :
                          call.transforms_to_extend[e].transform_id = t
                             => ExtendedBy(transforms'[t], RowBeforeExtend(t),
                                           call.transforms_to_extend[e])
                    /\ (\A e \in DOMAIN call.transforms_to_extend :
                            call.transforms_to_extend[e].transform_id # t)
                             => transforms'[t] = RowBeforeExtend(t)
              /\ \A f \in DOMAIN call.parameters :
                    requests'[call.request_id][f] = call.parameters[f]
        /\ (/\ last'.err = KeyError
            /\ \A k \in DOMAIN call.transforms_to_add : WellFormed(call.transforms_to_add[k]))
              => last'.n = StatementsBefore(call.transforms_to_add,
                                            Len(call.transforms_to_add) + 1)]_vars

\* A call with two extensions has succeeded on a store of three Transforms:
\* two carry the extensions, the third does not.
C14_Witness ==
    /\ call.phase = "returned" /\ last.op = "commit" /\ last.err = OK
    /\ Len(call.transforms_to_extend) = 2
    /\ Len(transforms) = 3
    /\ "status" \in DOMAIN transforms[1] /\ transforms[1].status = "Extended"
    /\ transforms[2].transform_tag = "x"
    /\ "status" \notin DOMAIN transforms[3] /\ transforms[3].transform_tag # "x"
(***************************************************************************)
(* Queries: callers of get_requests_by_status_type with every kind of      *)
(* filter, on a store whose Requests change status, lock and age.          *)
(***************************************************************************)
\* update_request that saves nothing.
update_request_unsaved(x, request_id, parameters) == x

\* update_request of the core: no session is handed on, the update is a
\* transaction of its own.
update_request(x, request_id, parameters) ==
    orm_update_request(x, request_id, parameters, FALSE)

QueryStatusSets == {{New}, {Transforming}, RequestStatuses}
QueryTypes == {None} \cup RequestTypes
QueryPeriods == {Absent} \cup {Some(t) : t \in TimePeriods}
QueryWorkers == {"w1"}

\* The call returns.
QueryDone(w, args, res) ==
    /\ requests' = transactional_session(res.x).requests
    /\ held' = IF args.locking /\ res.x.err = OK
               THEN [held EXCEPT ![w] = @ \cup Ids(res.rows)] ELSE held
    /\ txn' = [txn EXCEPT ![w] = NoClaim]
    /\ last' = [op |-> "query", w |-> w, args |-> args, err |-> res.x.err,
                rows |-> res.rows]

\* The select of a locking call has returned rows; its updates come in a
\* later step.
QuerySelected(w, args, sel) ==
    /\ txn' = [txn EXCEPT ![w] = [n |-> sel.x.n, rows |-> sel.rows, args |-> args]]
    /\ last' = [op |-> "select", w |-> w, args |-> args, rows |-> sel.rows]
    /\ UNCHANGED <<requests, held>>

QueryAfterSelect(w, args, sel) ==
    IF args.locking /\ sel.x.err = OK /\ sel.rows # <<>>
    THEN QuerySelected(w, args, sel)
    ELSE QueryDone(w, args, LockSelected(sel, args.locking))

\* The call up to and with its select.
Query(w) ==
    /\ txn[w] = NoClaim
    /\ \E status \in QueryStatusSets, request_type \in QueryTypes, time_period \in QueryPeriods,
          locking \in BOOLEAN, bulk_size \in ClaimBulks :
        \E pick \in SUBSET Matching(Store, status, request_type, time_period, locking) :
            /\ IsSelection(pick, Matching(Store, status, request_type, time_period, locking),
                           bulk_size)
            /\ QueryAfterSelect(w,
                   [status |-> status, request_type |-> request_type,
                    time_period |-> time_period, locking |-> locking,
                    bulk_size |-> bulk_size],
                   orm_get_requests_by_status_type(Begin(Store, 0), status, request_type,
                                                   time_period, locking, bulk_size, pick))
    /\ UNCHANGED <<transforms, collections, alive, call, contents, sequence, late>>

\* The updates and the return of a locking call that has selected.
QueryLock(w) ==
    /\ txn[w] # NoClaim
    /\ QueryDone(w, txn[w].args,
           LockSelected([x |-> Resume(Store, txn[w].n, 0), rows |-> txn[w].rows], TRUE))
    /\ UNCHANGED <<transforms, collections, alive, call, contents, sequence, late>>

\* A Request moves on to Transforming, with update_request.
Update ==
    /\ \E r \in RequestIds :
        /\ requests' = update_request(Begin(Store, 0), r, [status |-> Transforming]).c.requests
        /\ last' = [op |-> "update", request_id |-> r]
    /\ UNCHANGED <<transforms, collections, held, alive, txn, call, contents, sequence, late>>

QueryNext ==
    \/ \E w \in QueryWorkers : Query(w)
    \/ \E w \in QueryWorkers : QueryLock(w)
    \/ Update
    \/ Sweep
    \/ Tick

QuerySpec == Init /\ [][QueryNext]_vars

\* C15: every Request get_requests_by_status_type selects has, in the store
\* at the time of the select, its status in the given set, the given request
\* type when one is given, and was last updated more than time_period
\* seconds before when time_period is given; the rows returned are the rows
\* selected, they show a status of the set and the type given, and no more
\* than bulk_size are returned when bulk_size is given.
C15_FilterRespected ==
    [][/\ (last'.op \in {"select", "query"} /\ txn[last'.w] = NoClaim)
             => \A i \in DOMAIN last'.rows :
                  /\ requests[last'.rows[i].request_id].status \in last'.args.status
                  /\ last'.args.request_type # None
                        => requests[last'.rows[i].request_id].request_type
                              = last'.args.request_type
                  /\ last'.args.time_period # Absent
                        => requests[last'.rows[i].request_id].age
                              > last'.args.time_period[1]
       /\ (last'.op = "query" /\ last'.err = OK)
             => /\ txn[last'.w] # NoClaim
                      => last'.rows = txn[last'.w].rows /\ last'.args = txn[last'.w].args
                /\ \A i \in DOMAIN last'.rows :
                      /\ last'.rows[i].status \in last'.args.status
                      /\ last'.args.request_type # None
                            => last'.rows[i].request_type = last'.args.request_type
                /\ last'.args.bulk_size # Absent
                      => Len(last'.rows) <= last'.args.bulk_size[1]]_vars

\* A query by age, without locking, has returned one Request and left out
\* another of a status asked for that was updated too recently.
C15_Witness ==
    /\ last.op = "query" /\ last.err = OK /\ ~last.args.locking
    /\ last.args.time_period # Absent
    /\ Len(last.rows) = 1
    /\ \E r \in DOMAIN requests :
          /\ r \notin Ids(last.rows)
          /\ requests[r].status \in last.args.status
          /\ requests[r].age <= last.args.time_period[1]

(***************************************************************************)
(* orm.contents (main/lib/idds/orm/contents.py): add_content,              *)
(* add_contents, get_content_id.                                           *)
(*                                                                         *)
(* A Content row carries coll_id, scope, name, min_id, max_id,             *)
(* content_type, status and content_metadata; the remaining columns        *)
(* (bytes, md5, adler32, processing_id, storage_id, retries, path,         *)
(* expired_at) take part in no condition of the code and are left out.     *)
(* An execution context on the contents table has one more field:          *)
(*   x.sent  the parameter sets of the batched inserts issued so far.      *)
(***************************************************************************)
\* Largest number of Content rows the small payloads bring the table to.
MaxContents == 3
\* Longest small batch given to add_contents.
MaxBatch == 3
\* Largest small bulk_size.
MaxBulk == 2
\* Length of the large batch.
BigBatch == 250
\* add_contents(contents, returning_id=False, bulk_size=100)
DefaultBulkSize == 100

TypeError == "TypeError"
IntegrityError == "IntegrityError"
NoObject == "NoObject"

\* An enum member and its storage value are different Python objects.
Member(v) == [isEnum |-> TRUE, v |-> v]
Value(v) == [isEnum |-> FALSE, v |-> v]
PyNone == Value(None)
ContentType_File == Member("File")
ContentType_Event == Member("Event")
ContentStatus_New == Member("New")
ContentStatus_Failed == Member("Failed")
\* if isinstance(e, Enum): e = e.value
value(e) == IF e.isEnum THEN Value(e.v) ELSE e

\* Metadata: None, a dict (the empty one has v = ""), or its JSON text.
NoMetadata == [kind |-> "none", v |-> ""]
Dict(v) == [kind |-> "dict", v |-> v]
Truthy(m) == m.kind # "none" /\ ~(m.kind = "dict" /\ m.v = "")
\* The JSON text of a dict, and the dict a JSON text stands for.
\* json.dumps(None) is the text null, which json.loads turns back into None.
JsonNull == [kind |-> "text", v |-> "null"]
json_dumps(m) == IF m = NoMetadata THEN JsonNull ELSE [m EXCEPT !.kind = "text"]
json_loads(t) == IF t = JsonNull THEN NoMetadata ELSE [t EXCEPT !.kind = "dict"]
\* if content_metadata: content_metadata = json.dumps(content_metadata)
Dumped(m) == IF Truthy(m) THEN json_dumps(m) ELSE m

BeginContents(table, failAt) ==
    [c |-> table, w |-> table, n |-> 0, failAt |-> failAt, err |-> OK, sent |-> <<>>]

\* The uniqueness constraint of the backend on the Content identity key:
\* (coll_id, scope, name, content_type, min_id, max_id), with min_id and
\* max_id left out of the match for the File type.
SameIdentity(a, b) ==
    /\ a.coll_id = b.coll_id
    /\ a.scope = b.scope
    /\ a.name = b.name
    /\ a.content_type = b.content_type
    /\ \/ a.content_type = value(ContentType_File)
       \/ (a.min_id = b.min_id /\ a.max_id = b.max_id)

Conflicts(table, rows) ==
    \/ \E i \in DOMAIN rows : \E j \in DOMAIN table : SameIdentity(table[j], rows[i])
    \/ \E i \in DOMAIN rows : \E j \in DOMAIN rows : i < j /\ SameIdentity(rows[i], rows[j])

\* session.execute(stmt, params): one insert statement over the parameter
\* sets in rows, run in the caller's session. The generated content_id of a
\* row is its position in the table.
Insert(x, rows) ==
    IF x.err # OK THEN x
    ELSE IF Statement(x).err # OK THEN Statement(x)
    ELSE IF Conflicts(x.w, rows) THEN Raise(Statement(x), IntegrityError)
    ELSE [x EXCEPT !.n = @ + 1, !.w = @ \o rows, !.sent = Append(@, rows)]

\* except DatabaseError first: IntegrityError is a DatabaseError.
HandlersSwapped(x) ==
    IF x.err = IntegrityError THEN [x EXCEPT !.err = DatabaseException] ELSE x

\* except IntegrityError: raise DuplicatedObject
\* except DatabaseError: raise DatabaseException
Handlers(x) ==
    IF x.err = IntegrityError THEN [x EXCEPT !.err = DuplicatedObject] ELSE x

add_content(x, coll_id, scope, name, min_id, max_id, content_type, status, content_metadata, returning_id) ==
    LET row == [coll_id |-> coll_id, scope |-> scope, name |-> name,
                min_id |-> min_id, max_id |-> max_id,
                content_type |-> value(content_type), status |-> value(status),
                content_metadata |-> Dumped(content_metadata)]
        y == Handlers(Insert(x, <<row>>))
    IN [x |-> y,
        ret |-> IF y.err = OK /\ returning_id THEN Some(Len(y.w)) ELSE Absent]

default_params ==
    [coll_id |-> Absent, scope |-> None, name |-> None, min_id |-> Absent,
     max_id |-> Absent, content_type |-> ContentType_File,
     status |-> ContentStatus_New, content_metadata |-> NoMetadata]

Param(content) ==
    LET param == [key \in DOMAIN default_params |->
                    IF key \in DOMAIN content THEN content[key]
                    ELSE default_params[key]]
    IN [param EXCEPT !.content_type = value(@), !.status = value(@),
                     !.content_metadata = Dumped(@)]

Params(batch) == [i \in DOMAIN batch |-> Param(batch[i])]

\* range(0, len(params), bulk_size), for bulk_size >= 1
Starts(n, bulk_size) == {i \in 0..(n - 1) : i % bulk_size = 0}

\* One batch holding every record.
sub_params_one_batch(params, bulk_size) ==
    IF Len(params) = 0 THEN <<>> ELSE <<params>>

\* [params[i:i + bulk_size] for i in range(0, len(params), bulk_size)]
sub_params(params, bulk_size) ==
    [k \in 1..Cardinality(Starts(Len(params), bulk_size)) |->
        LET i == (k - 1) * bulk_size
            j == IF i + bulk_size < Len(params) THEN i + bulk_size ELSE Len(params)
        IN SubSeq(params, i + 1, j)]

\* for sub_param in sub_params: session.execute(stmt, sub_param)
RECURSIVE ExecuteEach(_, _, _)
ExecuteEach(x, sub, k) ==
    IF k > Len(sub) THEN x ELSE ExecuteEach(Insert(x, sub[k]), sub, k + 1)

\* The loop of the returning_id branch: its first iteration assigns to
\* sub_param['content_id'], and sub_param is a list.
ReturningIds(x, sub) == IF Len(sub) = 0 THEN x ELSE Raise(x, TypeError)

\* batch is the argument the code names contents.
add_contents(x, batch, returning_id, bulk_size) ==
    LET params == Params(batch)
        sub == sub_params(params, bulk_size)
        y == IF returning_id THEN Handlers(ReturningIds(x, sub))
             ELSE Handlers(ExecuteEach(x, sub, 1))
    IN [x |-> y,
        ret |-> IF y.err # OK \/ returning_id THEN <<>>
                ELSE [i \in 1..Len(params) |-> Absent]]

\* column = :parameter in SQL: with NULL (None) on a side it is not true.
EqId(a, b) == a # Absent /\ b # Absent /\ a = b
EqStr(a, b) == a # None /\ b # None /\ a = b

\* The place of a deleted row: its content_id is not given out again, and
\* with NULL in every column no select matches it.
NoRow ==
    [coll_id |-> Absent, scope |-> None, name |-> None, min_id |-> Absent,
     max_id |-> Absent, content_type |-> PyNone, status |-> PyNone,
     content_metadata |-> NoMetadata]
Stored(table) == {i \in DOMAIN table : table[i] # NoRow}

\* The rows the select of get_content_id matches, without the File branch.
ContentIdRowsRanged(table, coll_id, scope, name, content_type, min_id, max_id) ==
    {i \in DOMAIN table :
        /\ EqId(table[i].coll_id, coll_id) /\ EqStr(table[i].scope, scope)
        /\ EqStr(table[i].name, name) /\ table[i].content_type = value(content_type)
        /\ EqId(table[i].min_id, min_id) /\ EqId(table[i].max_id, max_id)}

\* The rows the select of get_content_id matches.
ContentIdRows(table, coll_id, scope, name, content_type, min_id, max_id) ==
    IF value(content_type) = PyNone
    THEN {i \in DOMAIN table :
            /\ EqId(table[i].coll_id, coll_id) /\ EqStr(table[i].scope, scope)
            /\ EqStr(table[i].name, name)
            /\ EqId(table[i].min_id, min_id) /\ EqId(table[i].max_id, max_id)}
    ELSE IF value(content_type) = value(ContentType_File)
    THEN {i \in DOMAIN table :
            /\ EqId(table[i].coll_id, coll_id) /\ EqStr(table[i].scope, scope)
            /\ EqStr(table[i].name, name) /\ table[i].content_type = value(content_type)}
    ELSE {i \in DOMAIN table :
            /\ EqId(table[i].coll_id, coll_id) /\ EqStr(table[i].scope, scope)
            /\ EqStr(table[i].name, name) /\ table[i].content_type = value(content_type)
            /\ EqId(table[i].min_id, min_id) /\ EqId(table[i].max_id, max_id)}

\* fetchone() gives one of the matching rows (the select has no order),
\* here the row fetched; a result of None raises NoObject.
get_content_id(table, coll_id, scope, name, content_type, min_id, max_id, fetched) ==
    IF ContentIdRows(table, coll_id, scope, name, content_type, min_id, max_id) = {}
    THEN [err |-> NoObject, ret |-> Absent]
    ELSE [err |-> OK, ret |-> Some(fetched)]

(***************************************************************************)
(* The contents machine: callers add single Contents, add batches and look *)
(* content ids up; last records the call just made, the table it found     *)
(* (before) and what it returned.                                          *)
(***************************************************************************)
FileF == [coll_id |-> Some(1), scope |-> "s", name |-> "f", min_id |-> Some(0),
          max_id |-> Some(9), content_type |-> ContentType_File]
\* The same File under another range, its type given as the storage value.
FileFOther == [coll_id |-> Some(1), scope |-> "s", name |-> "f", min_id |-> Some(10),
               max_id |-> Some(19), content_type |-> value(ContentType_File)]
EventF == [coll_id |-> Some(1), scope |-> "s", name |-> "f", min_id |-> Some(0),
           max_id |-> Some(9), content_type |-> ContentType_Event,
           status |-> ContentStatus_Failed, content_metadata |-> Dict("k")]
\* Only the required keys: every other key takes its default.
PlainG == [coll_id |-> Some(2), scope |-> "s", name |-> "g"]
ContentRecords == {FileF, FileFOther, EventF, PlainG}

ContentBatches == UNION {[1..n -> ContentRecords] : n \in 0..MaxBatch}
\* BigBatch distinct Contents of one Collection.
BigContents ==
    [i \in 1..BigBatch |->
        [coll_id |-> Some(3), scope |-> "s", name |-> "b", min_id |-> Some(i),
         max_id |-> Some(i), content_type |-> ContentType_Event]]
BulkSizes == 1..MaxBulk
ContentFailAts == {0, 2}

\* The arguments add_content gets for a record: the record's keys, the
\* signature's defaults for the others (min_id and max_id passed as None).
Arg(content, key) ==
    IF key \in DOMAIN content THEN content[key] ELSE default_params[key]

AddContentDone(content, returning_id, failAt, res) ==
    /\ contents' = transactional_session(res.x)
    /\ last' = [op |-> "add_content", before |-> contents, content |-> content,
                returning_id |-> returning_id, failAt |-> failAt,
                err |-> res.x.err, ret |-> res.ret]

AddContent ==
    /\ Len(contents) < MaxContents
    /\ \E content \in ContentRecords, returning_id \in BOOLEAN, failAt \in {0, 1} :
          AddContentDone(content, returning_id, failAt,
              add_content(BeginContents(contents, failAt),
                          Arg(content, "coll_id"), Arg(content, "scope"),
                          Arg(content, "name"), Arg(content, "min_id"),
                          Arg(content, "max_id"), Arg(content, "content_type"),
                          Arg(content, "status"), Arg(content, "content_metadata"),
                          returning_id))
    /\ UNCHANGED <<requests, transforms, collections, held, alive, txn, call, sequence, late>>

AddContentsDone(batch, returning_id, bulk_size, failAt, res) ==
    /\ contents' = transactional_session(res.x)
    /\ last' = [op |-> "add_contents", before |-> contents, contents |-> batch,
                returning_id |-> returning_id, bulk_size |-> bulk_size,
                failAt |-> failAt, err |-> res.x.err, ret |-> res.ret,
                n |-> res.x.n, sent |-> res.x.sent]

AddContents ==
    /\ \E batch \in ContentBatches \cup {BigContents},
          returning_id \in BOOLEAN,
          bulk_size \in BulkSizes \cup {DefaultBulkSize},
          failAt \in ContentFailAts :
          /\ \/ (batch # BigContents /\ Len(contents) + Len(batch) <= MaxContents)
             \/ (batch = BigContents /\ contents = <<>>
                   /\ bulk_size = DefaultBulkSize)
          /\ AddContentsDone(batch, returning_id, bulk_size, failAt,
                 add_contents(BeginContents(contents, failAt), batch,
                              returning_id, bulk_size))
    /\ UNCHANGED <<requests, transforms, collections, held, alive, txn, call, sequence, late>>

ContentRanges == {<<Absent, Absent>>, <<Some(0), Some(9)>>, <<Some(10), Some(19)>>}
ContentTypeArgs ==
    {PyNone, ContentType_File, value(ContentType_File), ContentType_Event}

GetContentIdDone(coll_id, name, content_type, range, res) ==
    /\ last' = [op |-> "get_content_id", before |-> contents,
                coll_id |-> coll_id, scope |-> "s",
                name |-> name, content_type |-> content_type,
                min_id |-> range[1], max_id |-> range[2],
                err |-> res.err, ret |-> res.ret]

GetContentId ==
    /\ \E coll_id \in {Some(1), Some(2)}, name \in {"f", "g"},
          content_type \in ContentTypeArgs, range \in ContentRanges :
          \E fetched \in ContentIdRows(contents, coll_id, "s", name, content_type,
                                       range[1], range[2]) \cup {0} :
             /\ fetched = 0 <=>
                  ContentIdRows(contents, coll_id, "s", name, content_type,
                                range[1], range[2]) = {}
             /\ GetContentIdDone(coll_id, name, content_type, range,
                    get_content_id(contents, coll_id, "s", name, content_type,
                                   range[1], range[2], fetched))
    /\ UNCHANGED <<requests, transforms, collections, contents, held, alive, txn, call, sequence, late>>

ContentNext == AddContent \/ AddContents \/ GetContentId

ContentSpec == Init /\ [][ContentNext]_vars

(***************************************************************************)
(* Properties of the contents store.                                       *)
(***************************************************************************)
Ceil(n, b) == (n + b - 1) \div b

RECURSIVE Flatten(_)
Flatten(seqs) == IF seqs = <<>> THEN <<>> ELSE Head(seqs) \o Flatten(Tail(seqs))

\* C16: add_contents without returning_id, on a batch of n records with
\* bulk size b, succeeds unless the backend fails or a record is a
\* duplicate; when it succeeds it has issued exactly ceil(n / b) batched
\* inserts, each of at least one and at most b records, whose concatenation
\* is the records in input order, it has persisted them in that order, and
\* it returns n nulls (250 records with bulk size 100: 3 inserts).
C16_ChunkedInsert ==
    (last.op = "add_contents" /\ ~last.returning_id) =>
        /\ (last.failAt = 0 /\ ~Conflicts(last.before, Params(last.contents)))
              => last.err = OK
        /\ last.err = OK =>
              /\ Len(last.sent) = Ceil(Len(last.contents), last.bulk_size)
              /\ last.n = Len(last.sent)
              /\ \A k \in DOMAIN last.sent :
                    Len(last.sent[k]) \in 1..last.bulk_size
              /\ Flatten(last.sent) = Params(last.contents)
              /\ contents = last.before \o Params(last.contents)
              /\ last.ret = [i \in 1..Len(last.contents) |-> Absent]
              /\ (Len(last.contents) = BigBatch
                    /\ last.bulk_size = DefaultBulkSize)
                    => Len(last.sent) = 3

\* The large batch went in with the default bulk size: three inserts, the
\* last one shorter, and as many nulls as records.
C16_Witness ==
    /\ last.op = "add_contents"
    /\ ~last.returning_id
    /\ last.err = OK
    /\ Len(last.contents) = BigBatch
    /\ last.bulk_size = DefaultBulkSize
    /\ Len(last.sent) = 3
    /\ Len(last.sent[3]) < DefaultBulkSize
    /\ Len(last.ret) = BigBatch
    /\ Len(contents) = BigBatch

\* C17: add_contents with returning_id, on n records none of which is a
\* duplicate and with a backend that does not fail, succeeds and returns
\* exactly n ids, the i-th being the id of the row of the i-th record.
C17_ReturnsIds ==
    (/\ last.op = "add_contents"
     /\ last.returning_id
     /\ last.failAt = 0
     /\ ~Conflicts(last.before, Params(last.contents))) =>
        /\ last.err = OK
        /\ Len(last.ret) = Len(last.contents)
        /\ \A i \in DOMAIN last.ret :
              /\ last.ret[i] \in DOMAIN contents
              /\ contents[last.ret[i]] = Params(last.contents)[i]

\* Some record of the batch is a duplicate of a stored Content or of an
\* earlier record of the batch.
HasDuplicate(table, batch) == Conflicts(table, Params(batch))

\* C18: an add_contents call one of whose records violates the uniqueness
\* key, in whichever chunk, fails with DuplicatedObject (the backend not
\* failing otherwise) and persists none of its records.
C18_DuplicateFailsWhole ==
    (/\ last.op = "add_contents"
     /\ last.failAt = 0
     /\ HasDuplicate(last.before, last.contents)) =>
        /\ last.err = DuplicatedObject
        /\ contents = last.before

\* Without returning_id a duplicate in any chunk fails the call with
\* DuplicatedObject, and a failed call persists nothing, whatever failed
\* and however many chunks had been issued.
AddContentsAllOrNothing ==
    last.op = "add_contents" =>
        /\ (~last.returning_id /\ last.failAt = 0
              /\ HasDuplicate(last.before, last.contents))
              => last.err = DuplicatedObject
        /\ last.err # OK => contents = last.before

\* A call without returning_id whose first chunk went through and whose
\* second chunk held the duplicate.
ReachedLaterChunkDuplicate ==
    /\ last.op = "add_contents"
    /\ ~last.returning_id
    /\ last.err = DuplicatedObject
    /\ last.n = 2
    /\ Len(last.sent) = 1
    /\ contents = last.before

\* The stored Content r has the identity the claim gives the Content c
\* being added: the six fields equal, or both File with the same coll_id,
\* scope and name.
SameContent(r, c) ==
    /\ r.coll_id = Arg(c, "coll_id")
    /\ r.scope = Arg(c, "scope")
    /\ r.name = Arg(c, "name")
    /\ r.content_type = value(Arg(c, "content_type"))
    /\ \/ (r.min_id = Arg(c, "min_id") /\ r.max_id = Arg(c, "max_id"))
       \/ r.content_type = Value("File")

\* C19: add_content of a Content whose (coll_id, scope, name, content_type,
\* min_id, max_id) equals that of a stored Content fails with
\* DuplicatedObject and leaves the table as it was; for the File type the
\* same (coll_id, scope, name) is enough, whatever min_id and max_id are.
C19_DuplicateContent ==
    (/\ last.op = "add_content"
     /\ last.failAt = 0
     /\ \E i \in DOMAIN last.before : SameContent(last.before[i], last.content)) =>
        /\ last.err = DuplicatedObject
        /\ contents = last.before

\* The File "f" is stored under one range and was added again under
\* another range: refused.
C19_Witness ==
    /\ last.op = "add_content"
    /\ last.failAt = 0
    /\ last.content = FileFOther
    /\ \E i \in DOMAIN last.before :
          /\ last.before[i].name = "f"
          /\ last.before[i].content_type = Value("File")
          /\ last.before[i].min_id = Some(0)
    /\ last.err = DuplicatedObject
    /\ contents = last.before

\* The Contents of the table with the coll_id, scope, name and content
\* type asked for.
Named(table, q) ==
    {i \in DOMAIN table :
        /\ table[i].coll_id = q.coll_id
        /\ table[i].scope = q.scope
        /\ table[i].name = q.name
        /\ table[i].content_type = value(q.content_type)}

\* Those of them that also have the min_id and max_id asked for.
NamedInRange(table, q) ==
    {i \in Named(table, q) :
        EqId(table[i].min_id, q.min_id) /\ EqId(table[i].max_id, q.max_id)}

\* C20: get_content_id with content_type File returns the id of a Content
\* with that coll_id, scope, name and type, and raises NoObject exactly
\* when there is none, whatever min_id and max_id are; with another content
\* type it returns the id of a Content that has in addition the min_id and
\* max_id asked for, and raises NoObject exactly when there is none.
C20_ContentIdDispatch ==
    (last.op = "get_content_id" /\ value(last.content_type) # PyNone) =>
        LET found == IF value(last.content_type) = Value("File")
                     THEN Named(last.before, last)
                     ELSE NamedInRange(last.before, last)
        IN /\ last.err \in {OK, NoObject}
           /\ last.err = NoObject <=> found = {}
           /\ last.err = OK =>
                 /\ last.ret # Absent
                 /\ \E i \in found : last.ret = Some(i)
           /\ last.err = NoObject => last.ret = Absent

\* A File was looked up, by the enum member, under a range it is not stored
\* with, and was found, an Event of the same name being stored too.
C20_Witness ==
    /\ last.op = "get_content_id"
    /\ last.content_type = ContentType_File
    /\ last.err = OK
    /\ \E i \in DOMAIN contents :
          /\ last.ret = Some(i)
          /\ contents[i].min_id # last.min_id
          /\ contents[i].content_type = Value("File")
    /\ \E j \in DOMAIN contents :
          /\ contents[j].content_type = Value("Event")
          /\ contents[j].name = last.name
          /\ contents[j].coll_id = last.coll_id

\* An Event looked up under a range it is not stored with: NoObject.
C20_ReachedRangeMiss ==
    /\ last.op = "get_content_id"
    /\ last.content_type = ContentType_Event
    /\ last.err = NoObject
    /\ Named(last.before, last) # {}

(***************************************************************************)
(* The commit and the lease (checked under Spec).                          *)
(***************************************************************************)
\* The store with the lease on Request r in place.
LeaseIntact(r) == [Store EXCEPT !.requests[r].locking = Locking]

\* What the commit of Request r with add does on store st.
CommitOn(st, r, add, failAt) ==
    update_request_with_transforms(Begin(st, failAt), r,
        [status |-> Transforming, locking |-> Idle], add, <<>>).x

\* C26: update_request_with_transforms does not look at the lease: whatever
\* the locking field of the Request and whoever else holds a claim on it, a
\* commit raises, issues and persists what it would with the lease in
\* place; it fails only with the backend's error or on a duplicate
\* Collection, and when it succeeds its Request update, its Transform and
\* its Collections are in the store.
C26_NoLeaseCheck ==
    [][last'.op = "commit" =>
         \E add \in LeaseAdds, failAt \in 0..1 :
            /\ last'.err = CommitOn(LeaseIntact(last'.request_id), last'.request_id, add, failAt).err
            /\ last'.n = CommitOn(LeaseIntact(last'.request_id), last'.request_id, add, failAt).n
            /\ last'.err # OK =>
                  /\ last'.err \in {DatabaseException, DuplicatedObject}
                  /\ UNCHANGED Persisted
            /\ last'.err = OK =>
                  /\ [requests |-> requests', transforms |-> transforms',
                      collections |-> collections']
                        = CommitOn(LeaseIntact(last'.request_id), last'.request_id, add, failAt).w
                  /\ requests'[last'.request_id].status = Transforming
                  /\ Len(transforms') = Len(transforms) + Len(add)]_vars

\* A worker has committed, with a Transform, a Request that another worker,
\* who is alive, holds a claim on too (taken after a clean_locking had reset
\* the lease, or in a claim that overlapped).
C26_Witness ==
    /\ last.op = "commit" /\ last.err = OK /\ last.n > 1
    /\ alive[last.w]
    /\ \E v \in Workers \ {last.w} : alive[v] /\ last.request_id \in held[v]
    /\ requests[last.request_id].status = Transforming
    /\ Len(transforms) >= 1
    /\ \E i \in DOMAIN collections : collections[i].transform_id = Len(transforms)

(***************************************************************************)
(* The lease machine with the sweep run at one time_period, and a record   *)
(* of the Requests whose claim a live worker has kept for that long.       *)
(***************************************************************************)
\* The time_period the sweep runs with.
HoldPeriod == MaxAge - 1

LiveHolders(r) == {w \in Workers : alive[w] /\ r \in held[w]}

SweepHold == SweepWith({HoldPeriod}, 0..1)

\* One second passes. A Request that a live worker still holds when its
\* last update (the claim) becomes HoldPeriod seconds old is late.
TickHold ==
    /\ \E r \in DOMAIN requests : requests[r].age < MaxAge
    /\ requests' = [r \in DOMAIN requests |->
                      [requests[r] EXCEPT !.age = IF @ < MaxAge THEN @ + 1 ELSE @]]
    /\ late' = late \cup {r \in DOMAIN requests :
                            LiveHolders(r) # {} /\ requests[r].age + 1 >= HoldPeriod}
    /\ last' = [op |-> "tick"]
    /\ UNCHANGED <<transforms, collections, contents, sequence, held, alive, txn, call>>

HoldNext ==
    \/ \E w \in Workers : Claim(w)
    \/ \E w \in Workers : Lock(w)
    \/ \E w \in Workers : Commit(w)
    \/ SweepHold
    \/ TickHold
    \/ \E w \in Workers : Crash(w)

HoldSpec == Init /\ [][HoldNext]_vars

\* C27: as long as every live worker has committed or crashed before its
\* claim on a Request was time_period seconds old, no two live workers hold
\* that Request at the same time, across all interleavings of claims,
\* commits, crashes and clean_locking(time_period) sweeps.
C27_TimelyHoldersExclusive ==
    \A r \in DOMAIN requests :
        r \notin late => Cardinality(LiveHolders(r)) <= 1

\* One Request was held for time_period or longer and is now in the hands
\* of two live workers; the other one, never held that long, is locked and
\* in the hands of one.
C27_Witness ==
    /\ \E r \in late : Cardinality(LiveHolders(r)) = 2
    /\ \E r \in DOMAIN requests \ late :
          requests[r].locking = Locking /\ Cardinality(LiveHolders(r)) = 1

(***************************************************************************)
(* Requests as entities: core add_request, get_request, update_request     *)
(* (main/lib/idds/core/requests.py) over orm add_request, get_request,     *)
(* delete_request.                                                         *)
(*                                                                         *)
(* An enum member handed to the orm is Member(v); the requests table holds *)
(* the storage value v. Metadata is None, a dict or its JSON text: keys    *)
(* are the keys of the dict and workload_id, when that key is there, its   *)
(* value, an int or a numeral string.                                      *)
(***************************************************************************)
\* The largest request_id the backend is let to generate.
MaxRequestId == 4
\* get_request(request_id=999999)
NeverCreated == 999999

NoRequestMetadata == [kind |-> "none", keys |-> {}, workload_id |-> <<>>]
RequestMetadata(keys, workload_id) ==
    [kind |-> "dict", keys |-> keys, workload_id |-> workload_id]
IntValue(n) == <<"int", n>>
StrValue(n) == <<"str", n>>
\* int(v)
int(v) == v[2]
\* bool(d) of None or a dict
TruthyDict(m) == m.kind # "none" /\ m.keys # {}
DumpedDict(m) == IF TruthyDict(m) THEN json_dumps(m) ELSE m
LoadedDict(m) == IF TruthyDict(m) THEN json_loads(m) ELSE m

\* RequestStatus(v), RequestLocking(v): the member of a storage value.
RequestStatus(v) == Member(v)

\* The parameters of add_request and their defaults.
AddRequestDefaults ==
    [scope |-> None, name |-> None, requester |-> None, request_type |-> None,
     transform_tag |-> None, status |-> Member(New), locking |-> Member(Idle),
     priority |-> 0, lifetime |-> 30, workload_id |-> Absent,
     request_metadata |-> NoRequestMetadata,
     processing_metadata |-> NoRequestMetadata]

\* The row orm add_request inserts for kwargs: enums as storage values,
\* metadata as JSON text, lifetime as the day the Request expires.
RequestRow(kwargs) ==
    [scope |-> kwargs.scope, name |-> kwargs.name, requester |-> kwargs.requester,
     request_type |-> kwargs.request_type, transform_tag |-> kwargs.transform_tag,
     status |-> value(kwargs.status).v, locking |-> value(kwargs.locking).v,
     priority |-> kwargs.priority, expired_at |-> kwargs.lifetime,
     workload_id |-> kwargs.workload_id,
     request_metadata |-> DumpedDict(kwargs.request_metadata),
     processing_metadata |-> DumpedDict(kwargs.processing_metadata),
     age |-> 0]

InsertRequest(y, kwargs, id) ==
    IF y.err # OK THEN y
    ELSE Write(y, TRUE,
               [y.w EXCEPT !.requests =
                   [r \in DOMAIN @ \cup {id} |->
                       IF r = id THEN RequestRow(kwargs) ELSE @[r]]])

\* orm add_request: one insert; the backend generates the request_id (id).
\* No uniqueness constraint is declared on Requests.
orm_add_request(x, kwargs, id) ==
    [x |-> InsertRequest(Statement(x), kwargs, id),
     ret |-> IF Statement(x).err = OK THEN Some(id) ELSE Absent]

\* add_request without the look into request_metadata.
add_request_as_passed(x, properties, id) ==
    orm_add_request(x,
        [key \in DOMAIN AddRequestDefaults |->
            IF key \in DOMAIN properties THEN properties[key]
            ELSE AddRequestDefaults[key]],
        id)

\* add_request(**properties): the keys not given take their defaults.
add_request(x, properties, id) ==
    LET kwargs == [key \in DOMAIN AddRequestDefaults |->
                     IF key \in DOMAIN properties THEN properties[key]
                     ELSE AddRequestDefaults[key]]
    IN orm_add_request(x,
          IF TruthyDict(kwargs.request_metadata)
                /\ "workload_id" \in kwargs.request_metadata.keys
          THEN [kwargs EXCEPT !.workload_id =
                                 Some(int(kwargs.request_metadata.workload_id))]
          ELSE kwargs,
          id)

\* The stored row as the dict orm get_request returns: the id, enums as
\* members, metadata parsed.
RequestDict(row, request_id) ==
    [f \in DOMAIN row \cup {"request_id"} |->
        IF f = "request_id" THEN request_id
        ELSE IF f \in {"status", "locking"} THEN RequestStatus(row[f])
        ELSE IF f \in {"request_metadata", "processing_metadata"} THEN LoadedDict(row[f])
        ELSE row[f]]

\* orm get_request by request_id: the row, or NoObject.
orm_get_request(st, request_id) ==
    IF request_id \in DOMAIN st.requests
    THEN [err |-> OK, ret |-> RequestDict(st.requests[request_id], request_id)]
    ELSE [err |-> NoObject, ret |-> [request_id |-> request_id]]

\* get_request that answers a missing id with an empty record.
get_request_lenient(st, request_id) ==
    IF request_id \in DOMAIN st.requests
    THEN orm_get_request(st, request_id)
    ELSE [err |-> OK, ret |-> [request_id |-> request_id]]

get_request(st, request_id) == orm_get_request(st, request_id)

\* A delete that takes every Request with the same columns with it.
DeleteRequestRows(y, request_id) ==
    IF y.err # OK THEN y
    ELSE Write(y, FALSE,
               [y.w EXCEPT !.requests =
                   [r \in {q \in DOMAIN @ : @[q] # @[request_id]} |-> @[r]]])

DeleteRequestRow(y, request_id) ==
    IF y.err # OK THEN y
    ELSE Write(y, FALSE,
               [y.w EXCEPT !.requests = [r \in DOMAIN @ \ {request_id} |-> @[r]]])

\* orm delete_request: one delete statement on the row of that id, in a
\* transaction of its own.
orm_delete_request(x, request_id) == DeleteRequestRow(Statement(x), request_id)

\* The Requests a call names: the one of the request_id when it is given,
\* those of the workload_id otherwise.
NamedRequests(table, request_id, workload_id) ==
    IF request_id # Absent
    THEN {r \in DOMAIN table : request_id = Some(r)}
    ELSE {r \in DOMAIN table :
            "workload_id" \in DOMAIN table[r] /\ EqId(table[r].workload_id, workload_id)}

\* One update statement that sets the columns of parameters on the rows
\* named, in a transaction of its own; no row named, nothing changes.
SetOnRequests(y, rows, parameters) ==
    IF y.err # OK THEN y
    ELSE Write(y, FALSE,
               [y.w EXCEPT !.requests =
                   [r \in DOMAIN @ |->
                       IF r \in rows
                       THEN [f \in DOMAIN @[r] \cup DOMAIN parameters |->
                               IF f \in DOMAIN parameters THEN parameters[f]
                               ELSE @[r][f]]
                       ELSE @[r]]])

\* orm extend_request: the Request expires lifetime days from now.
orm_extend_request(x, request_id, workload_id, lifetime) ==
    SetOnRequests(Statement(x),
                  NamedRequests(Statement(x).w.requests, request_id, workload_id),
                  [expired_at |-> lifetime])

\* orm cancel_request: the Request is Cancelled.
orm_cancel_request(x, request_id, workload_id) ==
    SetOnRequests(Statement(x),
                  NamedRequests(Statement(x).w.requests, request_id, workload_id),
                  [status |-> Cancelled])

\* extend_request(request_id=None, workload_id=None, lifetime=30) of the
\* core hands its arguments on.
extend_request(x, request_id, workload_id, lifetime) ==
    orm_extend_request(x, request_id, workload_id, lifetime)

\* cancel_request(request_id=None, workload_id=None) of the core hands its
\* arguments on.
cancel_request(x, request_id, workload_id) ==
    orm_cancel_request(x, request_id, workload_id)

(***************************************************************************)
(* orm.contents: get_content.                                              *)
(***************************************************************************)
\* ContentType(v), ContentStatus(v) where the column is not None.
EnumOf(v) == IF v = PyNone THEN v ELSE Member(v.v)
\* if content['content_metadata']: json.loads(...)
Loaded(m) == IF Truthy(m) THEN json_loads(m) ELSE m

\* row2dict alone: the columns as stored.
ContentDictRaw(row, content_id) ==
    [f \in DOMAIN row \cup {"content_id"} |->
        IF f = "content_id" THEN content_id ELSE row[f]]

\* row2dict and the conversions back: enums as members, metadata parsed.
ContentDict(row, content_id) ==
    [f \in DOMAIN row \cup {"content_id"} |->
        IF f = "content_id" THEN content_id
        ELSE IF f \in {"content_type", "status"} THEN EnumOf(row[f])
        ELSE IF f = "content_metadata" THEN Loaded(row[f])
        ELSE row[f]]

\* select * from contents where content_id=:content_id
ContentById(table, content_id) ==
    IF content_id \in Stored(table)
    THEN [err |-> OK, ret |-> ContentDict(table[content_id], content_id)]
    ELSE [err |-> NoObject, ret |-> [content_id |-> content_id]]

\* content_id is Absent (None) or Some(id); id 0 counts as not given.
get_content(table, content_id, coll_id, scope, name, content_type, min_id, max_id, fetched) ==
    IF content_id = Absent \/ content_id = Some(0)
    THEN IF get_content_id(table, coll_id, scope, name, content_type, min_id,
                           max_id, fetched).err # OK
         THEN [err |-> NoObject, ret |-> [content_id |-> 0]]
         ELSE ContentById(table, fetched)
    ELSE ContentById(table, content_id[1])

(***************************************************************************)
(* The entity machine: Requests and Contents are added, read back by id,   *)
(* updated and deleted.                                                    *)
(***************************************************************************)
\* As in the tests: every property given, the workload_id in the metadata
\* differing from the one passed.
PropertiesFull ==
    [scope |-> "s", name |-> "n", requester |-> "panda", request_type |-> "ESS",
     transform_tag |-> "t", status |-> Member(New), priority |-> 0,
     lifetime |-> 30, workload_id |-> Some(5),
     request_metadata |-> RequestMetadata({"workload_id"}, IntValue(7)),
     processing_metadata |-> RequestMetadata({"site"}, <<>>)]
\* The workload_id comes as a numeral string in the metadata only.
PropertiesNumeral ==
    [scope |-> "s", name |-> "n", status |-> Member(Failed),
     request_metadata |-> RequestMetadata({"site", "workload_id"}, StrValue(8))]
\* A workload_id passed, and metadata without that key.
PropertiesPassed ==
    [scope |-> "s", name |-> "n", workload_id |-> Some(5),
     request_metadata |-> RequestMetadata({"site"}, <<>>)]
\* A workload_id passed, and an empty dict as metadata.
PropertiesEmptyDict ==
    [scope |-> "s", name |-> "n", workload_id |-> Some(5),
     request_metadata |-> RequestMetadata({}, <<>>)]
\* Only the required parameters.
PropertiesPlain == [scope |-> "s", name |-> "n"]
RequestProperties ==
    {PropertiesFull, PropertiesNumeral, PropertiesPassed, PropertiesEmptyDict,
     PropertiesPlain}

AddRequestDone(properties, failAt, res) ==
    /\ requests' = transactional_session(res.x).requests
    /\ sequence' = IF res.x.err = OK THEN sequence + 1 ELSE sequence
    /\ last' = [op |-> "add_request", properties |-> properties,
                failAt |-> failAt, err |-> res.x.err, ret |-> res.ret]

\* add_request(**properties) for properties of the given set.
AddRequestWith(choices) ==
    /\ sequence <= MaxRequestId
    /\ \E properties \in choices, failAt \in {0, 1} :
          AddRequestDone(properties, failAt,
                         add_request(Begin(Store, failAt), properties, sequence))
    /\ UNCHANGED <<transforms, collections, contents, late, held, alive, txn, call>>

AddRequest == AddRequestWith(RequestProperties)

GetRequestDone(request_id, res) ==
    /\ last' = [op |-> "get_request", request_id |-> request_id,
                err |-> res.err, ret |-> res.ret]

GetRequest ==
    /\ \E request_id \in 1..MaxRequestId \cup {NeverCreated} :
          GetRequestDone(request_id, get_request(Store, request_id))
    /\ UNCHANGED <<requests, transforms, collections, contents, sequence, late, held,
                   alive, txn, call>>

GetContentDone(content_id, res) ==
    /\ last' = [op |-> "get_content", content_id |-> content_id,
                err |-> res.err, ret |-> res.ret]

\* get_content(content_id=content_id)
GetContent ==
    /\ \E content_id \in 1..(MaxContents + 1) :
          GetContentDone(content_id,
              get_content(contents, Some(content_id), Absent, None, None, PyNone,
                          Absent, Absent, 0))
    /\ UNCHANGED <<requests, transforms, collections, contents, sequence, late, held,
                   alive, txn, call>>

EntityNext ==
    \/ AddRequest
    \/ GetRequest
    \/ AddContent
    \/ GetContent

EntitySpec == Init /\ [][EntityNext]_vars

(***************************************************************************)
(* The request store under its whole interface: the same Request is added *)
(* more than once, Requests are read, updated and deleted.                 *)
(***************************************************************************)
AddSameRequest == AddRequestWith({PropertiesFull, PropertiesPlain})

UpdateRequestDone(request_id, status, failAt, x) ==
    /\ requests' = x.c.requests
    /\ last' = [op |-> "update_request", request_id |-> request_id,
                status |-> status, failAt |-> failAt, err |-> x.err]

\* update_request(request_id, parameters={'status': status})
UpdateRequest ==
    /\ \E request_id \in DOMAIN requests, status \in RequestStatuses \ {Cancelled},
          failAt \in {0, 1} :
          UpdateRequestDone(request_id, status, failAt,
              update_request(Begin(Store, failAt), request_id, [status |-> status]))
    /\ UNCHANGED <<transforms, collections, contents, sequence, late, held, alive, txn, call>>

DeleteRequestDone(request_id, failAt, x) ==
    /\ requests' = x.c.requests
    /\ last' = [op |-> "delete_request", request_id |-> request_id,
                row |-> requests[request_id], failAt |-> failAt, err |-> x.err]

DeleteRequest ==
    /\ \E request_id \in DOMAIN requests, failAt \in {0, 1} :
          DeleteRequestDone(request_id, failAt,
              orm_delete_request(Begin(Store, failAt), request_id))
    /\ UNCHANGED <<transforms, collections, contents, sequence, late, held, alive, txn, call>>

\* The Requests the callers name: the first Request added, by request_id,
\* or those of the workload_id of PropertiesFull, request_id left at None.
NamedByCallers == {<<Some(Cardinality(RequestIds) + 1), Absent>>, <<Absent, Some(7)>>}
\* The default lifetime, and a longer one.
Lifetimes == {30, 60}

ExtendRequestDone(request_id, workload_id, lifetime, failAt, x) ==
    /\ requests' = x.c.requests
    /\ last' = [op |-> "extend_request", request_id |-> request_id,
                workload_id |-> workload_id, lifetime |-> lifetime,
                failAt |-> failAt, err |-> x.err]

\* extend_request(request_id, workload_id, lifetime)
ExtendRequest ==
    /\ \E named \in NamedByCallers, lifetime \in Lifetimes, failAt \in {0, 1} :
          ExtendRequestDone(named[1], named[2], lifetime, failAt,
              extend_request(Begin(Store, failAt), named[1], named[2], lifetime))
    /\ UNCHANGED <<transforms, collections, contents, sequence, late, held, alive, txn, call>>

CancelRequestDone(request_id, workload_id, failAt, x) ==
    /\ requests' = x.c.requests
    /\ last' = [op |-> "cancel_request", request_id |-> request_id,
                workload_id |-> workload_id, failAt |-> failAt, err |-> x.err]

\* cancel_request(request_id, workload_id)
CancelRequest ==
    /\ \E named \in NamedByCallers, failAt \in {0, 1} :
          CancelRequestDone(named[1], named[2], failAt,
              cancel_request(Begin(Store, failAt), named[1], named[2]))
    /\ UNCHANGED <<transforms, collections, contents, sequence, late, held, alive, txn, call>>

CrudNext ==
    \/ AddSameRequest
    \/ GetRequest
    \/ UpdateRequest
    \/ DeleteRequest
    \/ ExtendRequest
    \/ CancelRequest

CrudSpec == Init /\ [][CrudNext]_vars

(***************************************************************************)
(* Properties of the request store (checked under CrudSpec).               *)
(***************************************************************************)
\* The Requests added by add_request (the others are there from the start).
Added == {r \in DOMAIN requests : r > Cardinality(RequestIds)}

\* C23: when update_request(id, {status: S}) has succeeded, the get_request
\* of that id that follows succeeds and returns status S as the enum
\* member, for every status S and whatever the status was before; an
\* update that failed leaves the Requests as they were.
C23_UpdateThenGet ==
    [][/\ (/\ last.op = "update_request" /\ last.err = OK
           /\ last'.op = "get_request" /\ last'.request_id = last.request_id)
          => /\ last'.err = OK
             /\ last'.ret.status = RequestStatus(last.status)
       /\ (last'.op = "update_request" /\ last'.err = OK)
          => requests'[last'.request_id].status = last'.status
       /\ (last'.op = "update_request" /\ last'.err # OK)
          => UNCHANGED requests]_vars

\* An added Request was updated to Failed and read back as Failed.
C23_Witness ==
    /\ last.op = "get_request" /\ last.err = OK
    /\ last.request_id \in Added
    /\ last.ret.status = RequestStatus(Failed)

\* C24: get_request raises NoObject exactly when no Request of that id is
\* stored: for an id never created, and for the id of a Request that
\* delete_request has removed.
C24_NoObjectWhenMissing ==
    /\ last.op = "get_request"
          => /\ last.request_id \notin DOMAIN requests <=> last.err = NoObject
             /\ last.request_id \in DOMAIN requests <=> last.err = OK
             /\ last.request_id >= sequence => last.err = NoObject
    /\ (last.op = "delete_request" /\ last.err = OK)
          => last.request_id \notin DOMAIN requests

\* The get_request of a Request that was added and then deleted raised
\* NoObject.
C24_Witness ==
    /\ last.op = "get_request" /\ last.err = NoObject
    /\ last.request_id > Cardinality(RequestIds)
    /\ last.request_id < sequence

\* The rows of the given ids, as stored.
Kept(table, ids) == [r \in ids |-> table[r]]

\* C28: add_request with the properties of a stored Request succeeds and
\* makes a record of its own under a new id, the other Requests untouched;
\* delete_request of one record removes that record alone, and every other
\* Request, the one with the same properties included, stays as it was,
\* can be read and can be updated.
C28_DuplicatesAreSeparate ==
    [][/\ (last'.op = "add_request" /\ last'.failAt = 0)
          => /\ last'.err = OK
             /\ last'.ret[1] \notin DOMAIN requests
             /\ DOMAIN requests' = DOMAIN requests \cup {last'.ret[1]}
             /\ Kept(requests', DOMAIN requests) = requests
       /\ (last'.op = "delete_request" /\ last'.err = OK)
          => /\ requests' = Kept(requests, DOMAIN requests \ {last'.request_id})
             /\ \A r \in DOMAIN requests' :
                   /\ get_request(Store', r).err = OK
                   /\ update_request(Begin(Store', 0), r, [status |-> Failed]).err = OK
                   /\ update_request(Begin(Store', 0), r,
                                     [status |-> Failed]).c.requests[r].status = Failed]_vars

\* The second of two Requests with the same properties has been deleted
\* and the first is still stored, equal to what the second was.
C28_Witness ==
    /\ last.op = "delete_request" /\ last.err = OK
    /\ \E r \in Added : r < last.request_id /\ requests[r] = last.row

(***************************************************************************)
(* Properties of the entity stores (checked under EntitySpec).             *)
(***************************************************************************)
\* The step reads back, by the id it returned, the Request just added.
ReadsBackRequest ==
    /\ last.op = "add_request" /\ last.err = OK
    /\ last'.op = "get_request" /\ Some(last'.request_id) = last.ret

\* The step reads back, by the id it returned, the Content just added.
ReadsBackContent ==
    /\ last.op = "add_content" /\ last.err = OK /\ last.returning_id
    /\ last'.op = "get_content" /\ Some(last'.content_id) = last.ret

EnumKeys == {"status", "locking", "content_type"}

\* The value read back equals the value supplied; for an enum field, it is
\* the same enum value.
SameField(key, got, supplied) ==
    IF key \in EnumKeys THEN value(got) = value(supplied) ELSE got = supplied

\* C22 as claimed: a Get by the id that Add returned succeeds, returns a
\* record with that id, and the record equals the properties supplied at
\* insert on every key but lifetime.
C22_RoundTrip ==
    [][/\ ReadsBackRequest =>
             /\ last'.err = OK
             /\ last'.ret.request_id = last.ret[1]
             /\ \A key \in DOMAIN last.properties \ {"lifetime"} :
                   SameField(key, last'.ret[key], last.properties[key])
       /\ ReadsBackContent =>
             /\ last'.err = OK
             /\ last'.ret.content_id = last.ret[1]
             /\ \A key \in DOMAIN last.content :
                   SameField(key, last'.ret[key], last.content[key])]_vars

\* The workload_id add_request stores for the properties.
StoredWorkloadId(properties) ==
    IF "request_metadata" \in DOMAIN properties
          /\ "workload_id" \in properties.request_metadata.keys
    THEN Some(properties.request_metadata.workload_id[2])
    ELSE IF "workload_id" \in DOMAIN properties THEN properties.workload_id
    ELSE Absent

\* What Get returns for a supplied field: an enum as the member of the
\* value supplied, workload_id as add_request stores it, anything else as
\* supplied.
ReadBack(properties, key) ==
    IF key \in EnumKeys THEN Member(properties[key].v)
    ELSE IF key = "workload_id" THEN StoredWorkloadId(properties)
    ELSE properties[key]

\* C22 as amended: a Get by the id that Add returned succeeds and returns a
\* record with that id; every field supplied, but lifetime, comes back as
\* supplied, metadata with the same structure and None as None, an enum as
\* the enum member (also when its storage value was supplied), except
\* workload_id, which comes back as the integer of
\* request_metadata['workload_id'] when the metadata has that key.
C22_RoundTripButWorkloadId ==
    [][/\ ReadsBackRequest =>
             /\ last'.err = OK
             /\ last'.ret.request_id = last.ret[1]
             /\ \A key \in DOMAIN last.properties \ {"lifetime"} :
                   last'.ret[key] = ReadBack(last.properties, key)
             /\ "request_metadata" \notin DOMAIN last.properties
                   => last'.ret.request_metadata = NoRequestMetadata
       /\ ReadsBackContent =>
             /\ last'.err = OK
             /\ last'.ret.content_id = last.ret[1]
             /\ \A key \in DOMAIN last.content :
                   last'.ret[key] = ReadBack(last.content, key)
             /\ "content_metadata" \notin DOMAIN last.content
                   => last'.ret.content_metadata = NoMetadata]_vars

\* The Request added with every property given has been read back: status
\* and both metadata as supplied, the workload_id the one of the metadata;
\* and a Content with metadata is in the store.
C22_Witness ==
    /\ last.op = "get_request" /\ last.err = OK
    /\ last.ret.request_id > Cardinality(RequestIds)
    /\ last.ret.status = PropertiesFull.status
    /\ last.ret.request_metadata = PropertiesFull.request_metadata
    /\ last.ret.processing_metadata = PropertiesFull.processing_metadata
    /\ last.ret.workload_id = Some(7)
    /\ \E i \in DOMAIN contents : contents[i].content_metadata.kind = "text"

\* C29: a successful add_request stores as workload_id the integer value of
\* request_metadata['workload_id'] when request_metadata has that key,
\* whatever workload_id was passed; otherwise (no metadata, an empty dict,
\* a dict without the key) it stores the workload_id passed, None when
\* none was.
C29_WorkloadIdFromMetadata ==
    [][(last'.op = "add_request" /\ last'.err = OK) =>
          /\ last'.ret # Absent
          /\ last'.ret[1] \in DOMAIN requests' \ DOMAIN requests
          /\ requests'[last'.ret[1]].workload_id =
                IF "request_metadata" \in DOMAIN last'.properties
                      /\ last'.properties.request_metadata.kind = "dict"
                      /\ "workload_id" \in last'.properties.request_metadata.keys
                THEN Some(last'.properties.request_metadata.workload_id[2])
                ELSE IF "workload_id" \in DOMAIN last'.properties
                THEN last'.properties.workload_id
                ELSE Absent]_vars

\* The numeral string of the metadata was stored as an integer; there is
\* also a Request that kept the workload_id passed, and one that has none.
C29_Witness ==
    /\ last.op = "add_request" /\ last.err = OK
    /\ last.properties = PropertiesNumeral
    /\ requests[last.ret[1]].workload_id = Some(8)
    /\ \E r \in DOMAIN requests :
          /\ r > Cardinality(RequestIds)
          /\ requests[r].workload_id \in {Some(5), Absent}

(***************************************************************************)
(* orm.contents: get_match_contents, get_contents and                      *)
(* get_content_status_statistics.                                          *)
(***************************************************************************)
\* A comparison of two columns in SQL: with NULL on a side it is not true.
Le(a, b) == a # Absent /\ b # Absent /\ a[1] <= b[1]

\* The truth value of a string or id argument: None, '' and 0 are false.
Given(s) == s \notin {None, ""}
GivenId(id) == id # Absent /\ id[1] # 0

\* The names that have part somewhere inside them are those that match
\* like '%part%'; the names of the model are f, g and fg.
Substrings(name) == IF name = "fg" THEN {"f", "g", "fg"} ELSE {name}
Like(name, part) == part \in Substrings(name)

\* The orders a select without order by may give the rows of ids in: any.
RECURSIVE Orders(_)
Orders(ids) ==
    IF ids = {} THEN {<<>>}
    ELSE UNION {{<<i>> \o order : order \in Orders(ids \ {i})} : i \in ids}

\* fetchall() and the loop over it: the rows selected, as dicts, in the
\* order the backend finds them in; order lists the ids of rows as the
\* backend comes to them.
Fetched(table, ids, order) ==
    LET Selected(d) == d.content_id \in ids
    IN SelectSeq([k \in DOMAIN order |-> ContentDict(table[order[k]], order[k])],
                 Selected)

\* and min_id<=:min_id and max_id>=:max_id
Covers(row, min_id, max_id) == Le(row.min_id, min_id) /\ Le(max_id, row.max_id)

\* The rows the select of get_match_contents matches.
MatchRows(table, coll_id, scope, name, content_type, min_id, max_id) ==
    IF value(content_type) # PyNone
    THEN IF value(content_type) = value(ContentType_File)
         THEN {i \in DOMAIN table :
                 /\ EqId(table[i].coll_id, coll_id) /\ EqStr(table[i].scope, scope)
                 /\ EqStr(table[i].name, name)
                 /\ table[i].content_type = value(content_type)}
         ELSE {i \in DOMAIN table :
                 /\ EqId(table[i].coll_id, coll_id) /\ EqStr(table[i].scope, scope)
                 /\ EqStr(table[i].name, name)
                 /\ table[i].content_type = value(content_type)
                 /\ Covers(table[i], min_id, max_id)}
    ELSE IF min_id = Absent \/ max_id = Absent
         THEN {i \in DOMAIN table :
                 /\ EqId(table[i].coll_id, coll_id) /\ EqStr(table[i].scope, scope)
                 /\ EqStr(table[i].name, name)}
         ELSE {i \in DOMAIN table :
                 /\ EqId(table[i].coll_id, coll_id) /\ EqStr(table[i].scope, scope)
                 /\ EqStr(table[i].name, name)
                 /\ Covers(table[i], min_id, max_id)}

\* get_match_contents: fetchall() gives the list of the rows matched, the
\* empty list when there is none; nothing in the try block raises
\* NoResultFound.
get_match_contents(table, coll_id, scope, name, content_type, min_id, max_id, order) ==
    [err |-> OK,
     ret |-> Fetched(table, MatchRows(table, coll_id, scope, name, content_type,
                                      min_id, max_id), order)]

\* The status argument: None, one status, or a list of them.
NoStatus == Absent
OneStatus(st) == Some([isList |-> FALSE, items |-> <<st>>])
StatusList(sts) == Some([isList |-> TRUE, items |-> sts])

\* status = [status] unless a list; every member replaced by its value.
new_status(status) == {value(status[1].items[i]) : i \in DOMAIN status[1].items}

\* get_contents that selects on whatever it is given, and on nothing when
\* nothing is given.
get_contents_unguarded(table, scope, name, coll_id, status, order) ==
    [err |-> OK,
     ret |-> Fetched(table,
                {i \in DOMAIN table :
                    /\ (Given(scope) /\ Given(name))
                          => (EqStr(table[i].scope, scope) /\ Like(table[i].name, name))
                    /\ GivenId(coll_id) => EqId(table[i].coll_id, coll_id)
                    /\ status # Absent => table[i].status \in new_status(status)},
                order)]

\* The rows the select of get_contents matches, by the branch taken.
ContentsRows(table, scope, name, coll_id, status) ==
    IF Given(scope) /\ Given(name)
    THEN IF GivenId(coll_id)
         THEN IF status # Absent
              THEN {i \in DOMAIN table :
                      /\ EqId(table[i].coll_id, coll_id) /\ EqStr(table[i].scope, scope)
                      /\ Like(table[i].name, name)
                      /\ table[i].status \in new_status(status)}
              ELSE {i \in DOMAIN table :
                      /\ EqId(table[i].coll_id, coll_id) /\ EqStr(table[i].scope, scope)
                      /\ Like(table[i].name, name)}
         ELSE IF status # Absent
              THEN {i \in DOMAIN table :
                      /\ EqStr(table[i].scope, scope) /\ Like(table[i].name, name)
                      /\ table[i].status \in new_status(status)}
              ELSE {i \in DOMAIN table :
                      EqStr(table[i].scope, scope) /\ Like(table[i].name, name)}
    ELSE IF GivenId(coll_id)
         THEN IF status # Absent
              THEN {i \in DOMAIN table :
                      /\ EqId(table[i].coll_id, coll_id)
                      /\ table[i].status \in new_status(status)}
              ELSE {i \in DOMAIN table : EqId(table[i].coll_id, coll_id)}
         ELSE IF status # Absent
              THEN {i \in DOMAIN table : table[i].status \in new_status(status)}
              ELSE {}

\* get_contents: WrongParameterException when no branch has a select;
\* otherwise the list of the rows matched, the empty list when there is
\* none.
get_contents(table, scope, name, coll_id, status, order) ==
    IF ~(Given(scope) /\ Given(name)) /\ ~GivenId(coll_id) /\ status = Absent
    THEN [err |-> WrongParameterException, ret |-> <<>>]
    ELSE [err |-> OK,
          ret |-> Fetched(table, ContentsRows(table, scope, name, coll_id, status),
                          order)]

ValueError == "ValueError"

\* ContentStatus(status): the member that has the value; the call raises
\* ValueError for a value no member has, and None, the NULL of the column,
\* is one.
ContentStatus(st) == IF st = PyNone THEN [raised |-> ValueError] ELSE Member(st.v)

\* select status, count(*) ... group by status, over the given rows, and
\* the loop over the groups: the dict from ContentStatus member to count;
\* the group of the rows with no status makes the loop raise ValueError.
StatusCounts(table, rows) ==
    IF \E i \in rows : ContentStatus(table[i].status) = [raised |-> ValueError]
    THEN [err |-> ValueError, ret |-> <<>>]
    ELSE [err |-> OK,
          ret |-> [s \in {ContentStatus(table[i].status) : i \in rows} |->
                     Cardinality({i \in rows : ContentStatus(table[i].status) = s})]]

\* The statistics over every Collection, whatever coll_id is.
get_content_status_statistics_all(table, coll_id) ==
    StatusCounts(table, Stored(table))

get_content_status_statistics(table, coll_id) ==
    IF GivenId(coll_id)
    THEN StatusCounts(table, {i \in DOMAIN table : table[i].coll_id = coll_id})
    ELSE StatusCounts(table, Stored(table))

(***************************************************************************)
(* The lookup machine: the Contents of LookupContents, of two Collections, *)
(* are added one after the other and callers query them; last records the  *)
(* query and what it returned.                                             *)
(***************************************************************************)
NewG == [coll_id |-> Some(1), scope |-> "s", name |-> "g"]
NewT == [coll_id |-> Some(1), scope |-> "t", name |-> "f"]
FailedFG == [coll_id |-> Some(1), scope |-> "s", name |-> "fg",
             status |-> value(ContentStatus_Failed)]
FailedT == [coll_id |-> Some(2), scope |-> "t", name |-> "f", min_id |-> Some(0),
            max_id |-> Some(19), content_type |-> ContentType_Event,
            status |-> ContentStatus_Failed]
LookupContents == <<FileF, FailedT, EventF, NewT, FailedFG, NewG, PlainG>>

AddLookupContent ==
    /\ \E k \in DOMAIN LookupContents, failAt \in {0, 1} :
          /\ k = Len(contents) + 1
          /\ AddContentDone(LookupContents[k], FALSE, failAt,
                add_content(BeginContents(contents, failAt),
                            Arg(LookupContents[k], "coll_id"),
                            Arg(LookupContents[k], "scope"),
                            Arg(LookupContents[k], "name"),
                            Arg(LookupContents[k], "min_id"),
                            Arg(LookupContents[k], "max_id"),
                            Arg(LookupContents[k], "content_type"),
                            Arg(LookupContents[k], "status"),
                            Arg(LookupContents[k], "content_metadata"),
                            FALSE))
    /\ UNCHANGED <<requests, transforms, collections, sequence, late, held, alive, txn, call>>

LookupCollIds == {Absent, Some(0), Some(1), Some(2), Some(3)}
LookupScopes == {None, "s", "t"}
LookupNames == {None, "f", "g"}
LookupStatuses ==
    {NoStatus, OneStatus(ContentStatus_New), OneStatus(value(ContentStatus_Failed)),
     StatusList(<<ContentStatus_New, ContentStatus_Failed>>), StatusList(<<>>)}

GetContentsDone(scope, name, coll_id, status, res) ==
    /\ last' = [op |-> "get_contents", scope |-> scope, name |-> name,
                coll_id |-> coll_id, status |-> status,
                err |-> res.err, ret |-> res.ret]

\* The longest result the queries of the model fetch.
MaxFetched == 4

\* get_contents with the rows it matches found in any order.
GetContents ==
    /\ \E scope \in LookupScopes, name \in LookupNames, coll_id \in LookupCollIds,
          status \in LookupStatuses :
          /\ Cardinality(ContentsRows(contents, scope, name, coll_id, status))
                <= MaxFetched
          /\ \E order \in Orders(ContentsRows(contents, scope, name, coll_id, status)) :
                GetContentsDone(scope, name, coll_id, status,
                    get_contents(contents, scope, name, coll_id, status, order))
    /\ UNCHANGED <<requests, transforms, collections, contents, sequence, late, held,
                   alive, txn, call>>

GetMatchContentsDone(coll_id, scope, name, content_type, range, res) ==
    /\ last' = [op |-> "get_match_contents", coll_id |-> coll_id, scope |-> scope,
                name |-> name, content_type |-> content_type,
                min_id |-> range[1], max_id |-> range[2],
                err |-> res.err, ret |-> res.ret]

MatchRanges == {<<Absent, Absent>>, <<Some(2), Some(5)>>, <<Some(5), Some(15)>>}

GetMatchContents ==
    /\ \E coll_id \in {Some(1), Some(2)}, scope \in {"s", "t"}, name \in {"f", "g"},
          content_type \in {PyNone, ContentType_File, ContentType_Event},
          range \in MatchRanges :
          \E order \in Orders(MatchRows(contents, coll_id, scope, name, content_type,
                                        range[1], range[2])) :
             GetMatchContentsDone(coll_id, scope, name, content_type, range,
                 get_match_contents(contents, coll_id, scope, name, content_type,
                                    range[1], range[2], order))
    /\ UNCHANGED <<requests, transforms, collections, contents, sequence, late, held,
                   alive, txn, call>>

GetContentStatusStatisticsDone(coll_id, res) ==
    /\ last' = [op |-> "get_content_status_statistics", coll_id |-> coll_id,
                err |-> res.err, ret |-> res.ret]

GetContentStatusStatistics ==
    /\ \E coll_id \in LookupCollIds :
          GetContentStatusStatisticsDone(coll_id,
              get_content_status_statistics(contents, coll_id))
    /\ UNCHANGED <<requests, transforms, collections, contents, sequence, late, held,
                   alive, txn, call>>

LookupNext ==
    \/ AddLookupContent
    \/ GetContents
    \/ GetMatchContents
    \/ GetContentStatusStatistics

LookupSpec == Init /\ [][LookupNext]_vars


(***************************************************************************)
(* orm.contents: update_content, update_contents, delete_content.          *)
(***************************************************************************)
\* The parameters as update_content binds them: enum members replaced by
\* their values, content_metadata, when given, by its JSON text.
Bound(parameters) ==
    [key \in DOMAIN parameters |->
        IF key \in {"content_type", "status"} THEN value(parameters[key])
        ELSE IF key = "content_metadata" THEN json_dumps(parameters[key])
        ELSE parameters[key]]

\* update_content: one statement, update contents set key=:key, ... where
\* content_id=:content_id; a content_id that names no row updates nothing
\* and raises nothing.
update_content(x, content_id, parameters) ==
    LET y == Statement(x)
        params == Bound(parameters)
    IN IF y.err # OK \/ content_id \notin Stored(y.w) THEN y
       ELSE [y EXCEPT !.w[content_id] =
                [f \in DOMAIN @ |-> IF f \in DOMAIN params THEN params[f] ELSE @[f]]]

\* for key in keys: content[key] = parameter[key] if present, else None
KeyOr(parameter, key, null) ==
    IF key \in DOMAIN parameter THEN parameter[key] ELSE null

\* The rows the where clause of update_contents selects for one parameter
\* set: by content_id, or by coll_id, scope, name, min_id and max_id.
UpdatedRows(table, parameter, with_content_id) ==
    IF with_content_id
    THEN {i \in Stored(table) : KeyOr(parameter, "content_id", Absent) = Some(i)}
    ELSE {i \in Stored(table) :
            /\ EqId(table[i].coll_id, KeyOr(parameter, "coll_id", Absent))
            /\ EqStr(table[i].scope, KeyOr(parameter, "scope", None))
            /\ EqStr(table[i].name, KeyOr(parameter, "name", None))
            /\ EqId(table[i].min_id, KeyOr(parameter, "min_id", Absent))
            /\ EqId(table[i].max_id, KeyOr(parameter, "max_id", Absent))}

\* set ... status=:status on the rows selected (path and updated_at are
\* columns the model does not keep).
SetStatus(table, parameter, with_content_id) ==
    [i \in DOMAIN table |->
        IF i \in UpdatedRows(table, parameter, with_content_id)
        THEN [table[i] EXCEPT !.status = value(KeyOr(parameter, "status", PyNone))]
        ELSE table[i]]

RECURSIVE SetEach(_, _, _, _)
SetEach(table, parameters, with_content_id, i) ==
    IF i > Len(parameters) THEN table
    ELSE SetEach(SetStatus(table, parameters[i], with_content_id), parameters,
                 with_content_id, i + 1)

\* update_contents: one statement executed with the list of parameter sets.
update_contents(x, parameters, with_content_id) ==
    LET y == Statement(x)
    IN IF y.err # OK THEN y
       ELSE [y EXCEPT !.w = SetEach(@, parameters, with_content_id, 1)]

\* delete_content: one delete statement; a content_id that names no row
\* deletes nothing and raises nothing.
delete_content(x, content_id) ==
    LET y == Statement(x)
    IN IF y.err # OK \/ content_id \notin Stored(y.w) THEN y
       ELSE [y EXCEPT !.w[content_id] = NoRow]

(***************************************************************************)
(* The status machine: the Contents of LookupContents are added, change    *)
(* status and are deleted, and callers ask for the statistics.             *)
(***************************************************************************)
ContentUpdates ==
    {[status |-> ContentStatus_Failed], [status |-> value(ContentStatus_New)],
     [status |-> ContentStatus_New, content_metadata |-> Dict("k")]}
\* The content_ids the callers name: the first three rows, and 0 for none.
Touched == 0..3

UpdateContentDone(content_id, parameters, failAt, x) ==
    /\ contents' = transactional_session(x)
    /\ last' = [op |-> "update_content", content_id |-> content_id,
                parameters |-> parameters, failAt |-> failAt, err |-> x.err]

UpdateContent ==
    /\ \E content_id \in Touched, parameters \in ContentUpdates, failAt \in {0, 1} :
          UpdateContentDone(content_id, parameters, failAt,
              update_content(BeginContents(contents, failAt), content_id, parameters))
    /\ UNCHANGED <<requests, transforms, collections, sequence, late, held, alive, txn, call>>

\* Parameter lists with the content_id, and without it; the last of ById
\* names no status.
ById == {<<[content_id |-> Some(i), status |-> st]>> :
            i \in 1..2, st \in {ContentStatus_New, value(ContentStatus_Failed)}}
        \cup {<<[content_id |-> Some(3)]>>}
ByIdentity ==
    {<<[coll_id |-> Some(1), scope |-> "s", name |-> "f", min_id |-> Some(0),
        max_id |-> Some(9), status |-> ContentStatus_Failed]>>,
     <<[coll_id |-> Some(1), scope |-> "t", name |-> "f", status |-> ContentStatus_Failed],
       [coll_id |-> Some(2), scope |-> "t", name |-> "f",
        min_id |-> Some(0), max_id |-> Some(19), status |-> ContentStatus_New]>>}

UpdateContentsDone(parameters, with_content_id, failAt, x) ==
    /\ contents' = transactional_session(x)
    /\ last' = [op |-> "update_contents", parameters |-> parameters,
                with_content_id |-> with_content_id, failAt |-> failAt, err |-> x.err]

UpdateContents ==
    /\ \E with_content_id \in BOOLEAN, failAt \in {0, 1} :
         \E parameters \in IF with_content_id THEN ById ELSE ByIdentity :
            UpdateContentsDone(parameters, with_content_id, failAt,
                update_contents(BeginContents(contents, failAt), parameters,
                                with_content_id))
    /\ UNCHANGED <<requests, transforms, collections, sequence, late, held, alive, txn, call>>

DeleteContentDone(content_id, failAt, x) ==
    /\ contents' = transactional_session(x)
    /\ last' = [op |-> "delete_content", content_id |-> content_id,
                failAt |-> failAt, err |-> x.err]

DeleteContent ==
    /\ \E content_id \in Touched, failAt \in {0, 1} :
          DeleteContentDone(content_id, failAt,
              delete_content(BeginContents(contents, failAt), content_id))
    /\ UNCHANGED <<requests, transforms, collections, sequence, late, held, alive, txn, call>>

StatusNext ==
    \/ AddLookupContent
    \/ UpdateContent
    \/ UpdateContents
    \/ DeleteContent
    \/ GetContentStatusStatistics

StatusSpec == Init /\ [][StatusNext]_vars

(***************************************************************************)
(* Properties of the Content queries (checked under LookupSpec, the         *)
(* statistics under StatusSpec).                                           *)
(***************************************************************************)
\* The Contents of the Collection, and those of them in a status.
ContentsOf(coll_id) == {i \in DOMAIN contents : contents[i].coll_id = coll_id}
InStatus(coll_id, s) == {i \in ContentsOf(coll_id) : contents[i].status = value(s)}

\* The sum of the entries of a status -> count map.
RECURSIVE SumCounts(_, _)
SumCounts(counts, keys) ==
    IF keys = {} THEN 0
    ELSE LET s == CHOOSE key \in keys : TRUE
         IN counts[s] + SumCounts(counts, keys \ {s})

\* The map of get_content_status_statistics(coll_id) is right for the
\* Collection: its keys are the ContentStatus members that some Content of
\* the Collection is in, the entry of a status is the number of Contents of
\* the Collection in that status, never 0, and the entries sum to the
\* number of Contents of the Collection.
CountsOfCollection(coll_id, counts) ==
    /\ DOMAIN counts =
          {s \in {ContentStatus_New, ContentStatus_Failed} : InStatus(coll_id, s) # {}}
    /\ \A s \in DOMAIN counts :
          counts[s] = Cardinality(InStatus(coll_id, s)) /\ counts[s] > 0
    /\ SumCounts(counts, DOMAIN counts) = Cardinality(ContentsOf(coll_id))

\* C21: get_content_status_statistics(coll_id) returns a map whose keys are
\* the ContentStatus members that some Content of the Collection is in; the
\* entry of a status is the number of Contents of the Collection in that
\* status, never 0; the entries sum to the number of Contents of the
\* Collection, and the Contents of other Collections are not counted.
C21_StatusStatistics ==
    (last.op = "get_content_status_statistics" /\ GivenId(last.coll_id)) =>
       /\ last.err = OK
       /\ CountsOfCollection(last.coll_id, last.ret)

\* What the code keeps of it: the call returns that map when every Content
\* of the Collection has a status, and raises ValueError when one has none.
StatusStatisticsOfSetStatuses ==
    (last.op = "get_content_status_statistics" /\ GivenId(last.coll_id)) =>
       IF \E i \in ContentsOf(last.coll_id) : contents[i].status = PyNone
       THEN last.err = ValueError
       ELSE last.err = OK /\ CountsOfCollection(last.coll_id, last.ret)

\* Of the 5 Contents added to the Collection the first was deleted and the
\* Failed one set to New: the map returned is {New: 3, Failed: 1}, while
\* another Collection has Contents too.
C21_Witness ==
    /\ last.op = "get_content_status_statistics"
    /\ last.coll_id = Some(1) /\ last.err = OK
    /\ Len(contents) >= 6
    /\ contents[1] = NoRow
    /\ contents[3].status = value(ContentStatus_New)
    /\ DOMAIN last.ret = {ContentStatus_New, ContentStatus_Failed}
    /\ last.ret[ContentStatus_New] = 3
    /\ last.ret[ContentStatus_Failed] = 1
    /\ ContentsOf(Some(2)) # {}

\* The content ids of the dicts of a list.
ContentIds(rets) == {rets[i].content_id : i \in DOMAIN rets}

\* C25 as claimed: get_contents raises WrongParameterException exactly
\* when scope and name are not both given, coll_id is not given and status
\* is not given; otherwise it returns the Contents that match every filter
\* given: the scope, the name, the coll_id and the statuses.
C25_AllGivenFilters ==
    last.op = "get_contents" =>
       /\ last.err = WrongParameterException
             <=> /\ (last.scope = None \/ last.name = None)
                 /\ last.coll_id = Absent
                 /\ last.status = Absent
       /\ last.err # WrongParameterException =>
             /\ last.err = OK
             /\ ContentIds(last.ret) =
                   {i \in DOMAIN contents :
                       /\ last.scope # None => contents[i].scope = last.scope
                       /\ last.name # None => contents[i].name = last.name
                       /\ last.coll_id # Absent => contents[i].coll_id = last.coll_id
                       /\ last.status # Absent
                             => contents[i].status \in new_status(last.status)}

\* C25 as amended: get_contents raises WrongParameterException exactly
\* when scope and name are not both given (None and '' count as not given),
\* coll_id is not given (None or 0) and status is None; otherwise it returns
\* the list, possibly empty, of the Contents, as dicts, that are in the
\* Collection when coll_id is given, in one of the statuses when status is
\* given (none of them for the empty list), and, when scope and name are
\* both given, of that scope with a name that contains the name given; a
\* scope or a name given alone selects nothing.
C25_PairedFilters ==
    last.op = "get_contents" =>
       /\ last.err = WrongParameterException
             <=> /\ ~(Given(last.scope) /\ Given(last.name))
                 /\ ~GivenId(last.coll_id)
                 /\ last.status = Absent
       /\ last.err # WrongParameterException =>
             /\ last.err = OK
             /\ ContentIds(last.ret) =
                   {i \in DOMAIN contents :
                       /\ (Given(last.scope) /\ Given(last.name))
                             => /\ contents[i].scope = last.scope
                                /\ Like(contents[i].name, last.name)
                       /\ GivenId(last.coll_id) => contents[i].coll_id = last.coll_id
                       /\ last.status # Absent
                             => contents[i].status \in new_status(last.status)}
             /\ Len(last.ret) = Cardinality(ContentIds(last.ret))
             /\ \A i \in DOMAIN last.ret :
                   last.ret[i] = ContentDict(contents[last.ret[i].content_id],
                                             last.ret[i].content_id)

\* get_contents(scope='t', coll_id=1) returned Contents of scope s, and
\* so did get_contents with scope s and name f a Content named fg.
C25_Witness ==
    /\ last.op = "get_contents" /\ last.err = OK
    /\ \/ /\ last.scope = "t" /\ last.name = None /\ last.coll_id = Some(1)
          /\ \E i \in DOMAIN last.ret : last.ret[i].scope = "s"
       \/ /\ last.scope = "s" /\ last.name = "f"
          /\ \E i \in DOMAIN last.ret : last.ret[i].name = "fg"

\* C30: get_match_contents and get_contents raise NoObject when no
\* Content satisfies the query.
C30_NoObjectWhenNoMatch ==
    /\ (/\ last.op = "get_match_contents"
        /\ MatchRows(contents, last.coll_id, last.scope, last.name,
                     last.content_type, last.min_id, last.max_id) = {})
          => last.err = NoObject
    /\ (/\ last.op = "get_contents" /\ last.err # WrongParameterException
        /\ ContentsRows(contents, last.scope, last.name, last.coll_id,
                        last.status) = {})
          => last.err = NoObject

(***************************************************************************)
(* Properties of the non-locking query (checked under QuerySpec).          *)
(***************************************************************************)
\* The Requests a locking claim with the given filters would select.
Claimable(st, status, request_type, time_period) ==
    Matching(st, status, request_type, time_period, TRUE)

\* C31: get_requests_by_status_type with locking=False is read-only: the
\* call changes no field of any Request, and nothing else in the store, it
\* makes its caller the holder of nothing, and every Request a locking
\* claim could select before the call it can select after it, with every
\* filter.
C31_NonLockingReadOnly ==
    [][(last'.op = "query" /\ ~last'.args.locking) =>
          /\ UNCHANGED <<requests, transforms, collections, held>>
          /\ \A status \in QueryStatusSets, request_type \in QueryTypes,
                time_period \in QueryPeriods :
                Claimable(Store', status, request_type, time_period) =
                   Claimable(Store, status, request_type, time_period)]_vars

\* A query without locking has returned Requests, and every one of them is
\* still Idle and can be selected by a locking claim.
C31_Witness ==
    /\ last.op = "query" /\ ~last.args.locking /\ last.err = OK
    /\ last.rows # <<>>
    /\ \A i \in DOMAIN last.rows :
          /\ requests[last.rows[i].request_id].locking = Idle
          /\ last.rows[i].request_id \in
                Claimable(Store, RequestStatuses, None, Absent)

(***************************************************************************)
(* The retry machine: a caller makes the commit call and, when it failed,  *)
(* makes it once more with the same list and dict objects, as the first    *)
(* attempt has left them.                                                  *)
(***************************************************************************)
RetryDone(failAt, res) ==
    /\ requests' = transactional_session(res.x).requests
    /\ transforms' = transactional_session(res.x).transforms
    /\ collections' = transactional_session(res.x).collections
    /\ call' = [call EXCEPT !.transforms_to_add = res.transforms_to_add,
                            !.transforms_to_extend = res.transforms_to_extend]
    /\ last' = [op |-> "retry", first_err |-> last.err, first_n |-> last.n,
                failAt |-> failAt, err |-> res.x.err, n |-> res.x.n]

Retry ==
    /\ call.phase = "returned"
    /\ last.op = "commit" /\ last.err # OK
    /\ \E failAt \in {0, 1} :
          RetryDone(failAt,
              update_request_with_transforms(Begin(Store, failAt), call.request_id,
                  call.parameters, call.transforms_to_add, call.transforms_to_extend))
    /\ UNCHANGED <<held, alive, txn, contents, sequence, late>>

RetryNext == Invoke \/ Execute \/ Retry \/ Return

RetrySpec == Init /\ [][RetryNext]_vars

(***************************************************************************)
(* Properties of the retry (checked under RetrySpec).                      *)
(***************************************************************************)
\* The entry is one the first loop gets past its test with.
PassesTest(transform) ==
    "collections" \in DOMAIN transform /\ Cardinality(DOMAIN transform.collections) > 0

\* The list after the call is the list before it, with the key removed
\* from some of its entries.
Consumed(after, before, key) ==
    /\ Len(after) = Len(before)
    /\ \A i \in DOMAIN before : after[i] \in {before[i], Del(before[i], key)}

\* C32: update_request_with_transforms consumes its arguments: the call
\* leaves the caller's lists with 'collections' removed from the add
\* entries it has processed and 'transform_id' from the extend entries it
\* has processed, from all of them when it succeeds and from the first
\* well-formed entry at least when it fails, although the failed call has
\* rolled back and left the store as it was. The call made again with the
\* same objects after a failure therefore runs no statement and changes
\* nothing: it raises WrongParameterException on the first add entry, or,
\* with no add entry, KeyError on the first extend entry.
C32_ArgumentsConsumed ==
    [][/\ last'.op \in {"commit", "retry"} =>
             /\ Consumed(call'.transforms_to_add, call.transforms_to_add, "collections")
             /\ Consumed(call'.transforms_to_extend, call.transforms_to_extend,
                         "transform_id")
             /\ (call.transforms_to_add # <<>> /\ PassesTest(call.transforms_to_add[1]))
                   => "collections" \notin DOMAIN call'.transforms_to_add[1]
             /\ (call.transforms_to_add = <<>> /\ call.transforms_to_extend # <<>>)
                   => "transform_id" \notin DOMAIN call'.transforms_to_extend[1]
             /\ last'.err = OK =>
                   /\ \A i \in DOMAIN call'.transforms_to_add :
                         "collections" \notin DOMAIN call'.transforms_to_add[i]
                   /\ \A i \in DOMAIN call'.transforms_to_extend :
                         "transform_id" \notin DOMAIN call'.transforms_to_extend[i]
             /\ last'.err # OK => UNCHANGED Persisted
       /\ last'.op = "retry" =>
             /\ call.transforms_to_add # <<>>
                   => /\ last'.err = WrongParameterException /\ last'.n = 0
                      /\ UNCHANGED Persisted
             /\ (call.transforms_to_add = <<>> /\ call.transforms_to_extend # <<>>)
                   => /\ last'.err = KeyError /\ last'.n = 0
                      /\ UNCHANGED Persisted]_vars

\* The first attempt, with one well-formed entry, failed in the backend at
\* one of its statements; the store is empty and the entry has lost its
\* collections; the same call made again, with a backend that works, was
\* refused with WrongParameterException.
C32_Witness ==
    /\ last.op = "retry"
    /\ last.first_err = DatabaseException /\ last.first_n >= 1
    /\ last.failAt = 0 /\ last.err = WrongParameterException
    /\ call.transforms_to_add = <<Del(TransformA, "collections")>>
    /\ transforms = <<>> /\ collections = <<>>
====
